---- MODULE Spec2Model ----
(***************************************************************************)
(* Model of JapaneseFieldExtractor (src/extractors/japanese_parser.py).    *)
(*                                                                         *)
(* Text is a sequence of Unicode code points (decimal integers), so that   *)
(* the character ranges of the regular expressions ([A-Z], U+4E00-U+9FAF)  *)
(* are the ranges of the source.  Python's None is the empty sequence and  *)
(* a present value v is <<v>> (an Optional is a sequence of length <= 1),  *)
(* so that the empty string <<>> wrapped as << <<>> >> differs from None.  *)
(***************************************************************************)
EXTENDS Integers, Sequences, FiniteSets, TLC

VARIABLES raw_text, document_type, pc, ret,
          files, results, extracted_data,
          instance, calls

\* the /extract handler of src/main.py: the uploaded files, the entries built
\* so far, the handler's local extracted_data
handler_vars == <<files, results, extracted_data>>

\* one extractor shared by several calls, and the frames of these calls
shared_vars == <<instance, calls>>

vars == <<raw_text, document_type, pc, ret, handler_vars, shared_vars>>

None == <<>>
Some(v) == <<v>>

\* a local variable: v is computed once and named in F
With(v, F(_)) == F(v)

\* ------------------------------------------------------------------------
\* Characters
\* ------------------------------------------------------------------------

\* str.isspace() / regex \s on str patterns: the Unicode whitespace set
Space ==
  {9, 10, 11, 12, 13, 28, 29, 30, 31, 32, 133, 160, 5760} \cup (8192..8202)
    \cup {8232, 8233, 8239, 8287, 12288}

\* regex \d on str patterns: ASCII digits and the full-width digits U+FF10..U+FF19
\* (the other Unicode decimal digits do not occur in the inputs drawn here)
Digit == (48..57) \cup (65296..65305)

UpperAZ == 65..90
LowerAZ == 97..122
Kanji == 19968..40879       \* U+4E00..U+9FAF
Hiragana == 12352..12447    \* U+3040..U+309F
Katakana == 12448..12543    \* U+30A0..U+30FF

\* str.upper() / str.lower() on one character: ASCII and full-width Latin
\* letters (U+FF21..U+FF3A, U+FF41..U+FF5A); every other character drawn
\* here is caseless.
upper(c) ==
  IF c \in LowerAZ \/ c \in 65345..65370 THEN c - 32 ELSE c

lower(c) ==
  IF c \in UpperAZ \/ c \in 65313..65338 THEN c + 32 ELSE c

str_upper(s) == [i \in 1..Len(s) |-> upper(s[i])]
str_lower(s) == [i \in 1..Len(s) |-> lower(s[i])]

\* unicodedata.normalize("NFKC", c) for one character: the full-width forms
\* U+FF01..U+FF5E fold to ASCII U+0021..U+007E, the ideographic space U+3000
\* folds to U+0020; every other character drawn here is its own NFKC form.
NFKCChar(c) ==
  IF c \in 65281..65374 THEN c - 65248
  ELSE IF c = 12288 THEN 32
  ELSE c

NFKC(s) == [i \in 1..Len(s) |-> NFKCChar(s[i])]

\* re.sub(r'[S]+', c, s): every maximal run of characters of S becomes <<c>>
RECURSIVE sub_runs(_, _, _)
sub_runs(S, c, s) ==
  IF s = <<>> THEN <<>>
  ELSE IF Head(s) \in S
       THEN IF Len(s) > 1 /\ s[2] \in S
            THEN sub_runs(S, c, Tail(s))
            ELSE <<c>> \o sub_runs(S, c, Tail(s))
       ELSE <<Head(s)>> \o sub_runs(S, c, Tail(s))

RECURSIVE lstrip(_)
lstrip(s) ==
  IF s # <<>> /\ Head(s) \in Space THEN lstrip(Tail(s)) ELSE s

RECURSIVE rstrip(_)
rstrip(s) ==
  IF s # <<>> /\ s[Len(s)] \in Space THEN rstrip(SubSeq(s, 1, Len(s) - 1)) ELSE s

strip(s) == rstrip(lstrip(s))

\* a mutant of normalize_text: whitespace is collapsed before the width
\* folding, so a folded U+3000 is left beside a space
normalize_text_fold_last(text) ==
  IF text = <<>> THEN <<>>
  ELSE strip(NFKC(sub_runs({10}, 10, sub_runs({32, 9}, 32, text))))

normalize_text(text) ==
  IF text = <<>> THEN <<>>
  ELSE strip(sub_runs({10}, 10, sub_runs({32, 9}, 32, NFKC(text))))

\* ------------------------------------------------------------------------
\* Regular expressions (Python's re: backtracking, leftmost, first
\* alternative first, greedy before lazy).  A pattern is a tree of nodes; a
\* match is decided against the list k of nodes still to be matched, so that
\* a later node's failure backtracks into an earlier node's choices.
\* ------------------------------------------------------------------------

Chr(S) == [t |-> "set", S |-> S]                  \* [...]
NotChr(S) == [t |-> "nset", S |-> S]              \* [^...]
Dot == [t |-> "dot"]                              \* .
Cat(rs) == [t |-> "cat", rs |-> rs]               \* r1 r2 ...
Alt(rs) == [t |-> "alt", rs |-> rs]               \* r1|r2|...
Rep(r, lo, hi, lazy) ==                           \* r{lo,hi}, hi = -1: no limit
  [t |-> "rep", r |-> r, lo |-> lo, hi |-> hi, lazy |-> lazy]
Star(r) == Rep(r, 0, -1, FALSE)                   \* r*
Plus(r) == Rep(r, 1, -1, FALSE)                   \* r+
LazyPlus(r) == Rep(r, 1, -1, TRUE)                \* r+?
Opt(r) == Rep(r, 0, 1, FALSE)                     \* r?
Times(r, n) == Rep(r, n, n, FALSE)                \* r{n}
Cap(r) == [t |-> "cap", r |-> r]                  \* (r)
Ahead(r) == [t |-> "ahead", r |-> r]              \* (?=r)
Bol == [t |-> "bol"]                              \* ^
Eol == [t |-> "eol"]                              \* $
WordB == [t |-> "wb"]                             \* \b
Lit(w) == [t |-> "lit", w |-> w]                  \* a literal string

\* re flags: IGNORECASE, MULTILINE, DOTALL
NoFlags == [ic |-> FALSE, ml |-> FALSE, ds |-> FALSE]
IGNORECASE == [ic |-> TRUE, ml |-> FALSE, ds |-> FALSE]
MULTILINE == [ic |-> FALSE, ml |-> TRUE, ds |-> FALSE]
DOTALL == [ic |-> FALSE, ml |-> FALSE, ds |-> TRUE]
IGNORECASE_DOTALL == [ic |-> TRUE, ml |-> FALSE, ds |-> TRUE]

\* regex \w on str patterns: letters, digits, underscore, for the characters
\* drawn here (kanji, kana letters, ASCII and full-width alphanumerics);
\* U+30FB (middle dot) and U+30A0 are punctuation, U+3099..U+309C marks
WordChar ==
  (48..57) \cup UpperAZ \cup LowerAZ \cup {95} \cup Kanji
    \cup (12353..12438) \cup (12445..12447) \cup (12449..12538) \cup (12540..12543)
    \cup (65296..65305) \cup (65313..65338) \cup (65345..65370)

InClass(c, S, fl) == c \in S \/ (fl.ic /\ (upper(c) \in S \/ lower(c) \in S))

NoMatch == <<FALSE, 0, <<0, 0>>>>

SetMin(S) == CHOOSE x \in S : \A y \in S : x <= y
SetMax(S) == CHOOSE x \in S : \A y \in S : x >= y

\* one character c against a one-character node r
CharOk(r, c, fl) ==
  CASE r.t = "set" -> InClass(c, r.S, fl)
    [] r.t = "nset" -> ~InClass(c, r.S, fl)
    [] r.t = "dot" -> fl.ds \/ c # 10

\* the length of the longest run of characters matching r from position i
RunLen(r, s, i, fl) ==
  With({j \in i..Len(s) : ~CharOk(r, s[j], fl)}, LAMBDA bad :
    (IF bad = {} THEN Len(s) + 1 ELSE SetMin(bad)) - i)

\* <<matched, end, <<group start, group end>>>> of the nodes k at position i
\* of s (positions are 1-based; a group is s[start..end-1]).  A repetition
\* of a one-character node takes the longest (greedy) or the shortest (lazy)
\* run after which the rest matches, which is what backtracking finds first.
RECURSIVE Match(_, _, _, _, _)
Match(k, s, i, cap, fl) ==
  IF k = <<>> THEN <<TRUE, i, cap>>
  ELSE
    LET r == Head(k)
        rest == Tail(k)
    IN CASE r.t \in {"set", "nset", "dot"} ->
              IF i <= Len(s) /\ CharOk(r, s[i], fl)
              THEN Match(rest, s, i + 1, cap, fl) ELSE NoMatch
         [] r.t = "lit" ->
              IF /\ i + Len(r.w) - 1 <= Len(s)
                 /\ \A j \in 1..Len(r.w) : InClass(s[i + j - 1], {r.w[j]}, fl)
              THEN Match(rest, s, i + Len(r.w), cap, fl) ELSE NoMatch
         [] r.t = "cat" -> Match(r.rs \o rest, s, i, cap, fl)
         [] r.t = "alt" ->
              IF r.rs = <<>> THEN NoMatch
              ELSE With(Match(<<Head(r.rs)>> \o rest, s, i, cap, fl), LAMBDA first :
                     IF first[1] THEN first
                     ELSE Match(<<Alt(Tail(r.rs))>> \o rest, s, i, cap, fl))
         [] r.t = "rep" /\ r.r.t \in {"set", "nset", "dot"} ->
              With(RunLen(r.r, s, i, fl), LAMBDA run :
                With(IF r.hi >= 0 /\ r.hi < run THEN r.hi ELSE run, LAMBDA most :
                  With({j \in (i + r.lo)..(i + most) : Match(rest, s, j, cap, fl)[1]}, LAMBDA ends :
                    IF ends = {} THEN NoMatch
                    ELSE Match(rest, s, IF r.lazy THEN SetMin(ends) ELSE SetMax(ends), cap, fl))))
         [] r.t = "rep" /\ r.r.t \notin {"set", "nset", "dot"} ->
              With(IF r.hi = 0 THEN NoMatch
                   ELSE Match(<<r.r, Rep(r.r,
                                         IF r.lo > 0 THEN r.lo - 1 ELSE 0,
                                         IF r.hi > 0 THEN r.hi - 1 ELSE r.hi,
                                         r.lazy)>> \o rest, s, i, cap, fl), LAMBDA again :
                With(IF r.lo > 0 THEN NoMatch ELSE Match(rest, s, i, cap, fl), LAMBDA stop :
                  IF r.lazy
                  THEN IF stop[1] THEN stop ELSE again
                  ELSE IF again[1] THEN again ELSE stop))
         [] r.t = "cap" -> Match(<<r.r, [t |-> "capend", at |-> i]>> \o rest, s, i, cap, fl)
         [] r.t = "capend" -> Match(rest, s, i, <<r.at, i>>, fl)
         [] r.t = "ahead" ->
              IF Match(<<r.r>>, s, i, cap, fl)[1]
              THEN Match(rest, s, i, cap, fl) ELSE NoMatch
         [] r.t = "bol" ->
              IF i = 1 \/ (fl.ml /\ s[i - 1] = 10)
              THEN Match(rest, s, i, cap, fl) ELSE NoMatch
         [] r.t = "eol" ->
              IF \/ i = Len(s) + 1
                 \/ (i = Len(s) /\ s[i] = 10)
                 \/ (fl.ml /\ s[i] = 10)
              THEN Match(rest, s, i, cap, fl) ELSE NoMatch
         [] r.t = "wb" ->
              IF (i > 1 /\ s[i - 1] \in WordChar) # (i <= Len(s) /\ s[i] \in WordChar)
              THEN Match(rest, s, i, cap, fl) ELSE NoMatch

\* re.search from position i on: <<found, start, end, group>>
RECURSIVE SearchFrom(_, _, _, _)
SearchFrom(r, s, i, fl) ==
  IF i > Len(s) + 1 THEN <<FALSE, 0, 0, <<0, 0>>>>
  ELSE With(Match(<<r>>, s, i, <<0, 0>>, fl), LAMBDA m :
         IF m[1] THEN <<TRUE, i, m[2], m[3]>> ELSE SearchFrom(r, s, i + 1, fl))

re_search(r, s, fl) == SearchFrom(r, s, 1, fl)

\* match.group(0) and match.group(1) of a successful search m in s
group0(m, s) == SubSeq(s, m[2], m[3] - 1)
group1(m, s) == SubSeq(s, m[4][1], m[4][2] - 1)

\* kw in text
RECURSIVE ContainsFrom(_, _, _)
ContainsFrom(text, kw, i) ==
  IF i + Len(kw) - 1 > Len(text) THEN FALSE
  ELSE IF SubSeq(text, i, i + Len(kw) - 1) = kw THEN TRUE
  ELSE ContainsFrom(text, kw, i + 1)

Contains(text, kw) == ContainsFrom(text, kw, 1)

\* ------------------------------------------------------------------------
\* JapaneseFieldExtractor: constants and lexicon tables
\* ------------------------------------------------------------------------

DOC_RESIDENCE_CARD == "RESIDENCE_CARD"
DOC_MYNUMBER_CARD == "MYNUMBER_CARD"
DOC_DRIVING_LICENSE == "DRIVING_LICENSE"

\* a mutant of RESIDENCE_CARD_FIELDS: the field list lacks "region", which
\* the pipeline's record has
RESIDENCE_CARD_FIELDS_no_region ==
  <<"full_name", "full_name_japanese", "date_of_birth", "nationality",
    "gender", "status_of_residence", "period_of_stay", "work_restriction",
    "card_number", "issue_date", "expiry_date", "address">>

RESIDENCE_CARD_FIELDS ==
  <<"full_name", "full_name_japanese", "date_of_birth", "nationality", "region",
    "gender", "status_of_residence", "period_of_stay", "work_restriction",
    "card_number", "issue_date", "expiry_date", "address">>

MYNUMBER_CARD_FIELDS ==
  <<"full_name", "full_name_romaji", "date_of_birth", "gender", "address",
    "my_number", "issue_date", "expiry_date", "digital_cert_expiry">>

DRIVING_LICENSE_FIELDS ==
  <<"full_name", "date_of_birth", "address", "license_number", "issue_date",
    "expiry_date", "license_categories", "conditions", "issuing_authority">>

MALE == <<77, 65, 76, 69>>
FEMALE == <<70, 69, 77, 65, 76, 69>>

\* GENDER_MAP: otoko, onna, dansei, josei, M, F, Male, Female
GENDER_MAP ==
  << <<<<30007>>, MALE>>, <<<<22899>>, FEMALE>>,
     <<<<30007, 24615>>, MALE>>, <<<<22899, 24615>>, FEMALE>>,
     <<<<77>>, MALE>>, <<<<70>>, FEMALE>>,
     <<<<77, 97, 108, 101>>, MALE>>, <<<<70, 101, 109, 97, 108, 101>>, FEMALE>> >>

\* dict.get(key, default) on a table of <<key, value>> pairs
RECURSIVE dict_get(_, _, _)
dict_get(table, key, default) ==
  IF table = <<>> THEN default
  ELSE IF Head(table)[1] = key THEN Head(table)[2]
  ELSE dict_get(Tail(table), key, default)

\* residence_card_pattern: [A-Z]{2}\d{8}[A-Z]{2}
residence_card_pattern ==
  Cat(<<Times(Chr(UpperAZ), 2), Times(Chr(Digit), 8), Times(Chr(UpperAZ), 2)>>)

\* ------------------------------------------------------------------------
\* detect_document_type
\* ------------------------------------------------------------------------

\* zairyu kaado, RESIDENCE CARD, zairyu shikaku, zairyu kikan, shuurou
\* seigen, WORK RESTRICTION, kokuseki-chiiki, NATIONALITY
residence_keywords ==
  <<<<22312, 30041, 12459, 12540, 12489>>, <<82, 69, 83, 73, 68, 69, 78, 67, 69, 32, 67, 65, 82, 68>>, <<22312, 30041, 36039, 26684>>, <<22312, 30041, 26399, 38291>>,
    <<23601, 21172, 21046, 38480>>, <<87, 79, 82, 75, 32, 82, 69, 83, 84, 82, 73, 67, 84, 73, 79, 78>>, <<22269, 31821, 12539, 22320, 22495>>, <<78, 65, 84, 73, 79, 78, 65, 76, 73, 84, 89>>>>

\* kojin bangou, mainanbaa, INDIVIDUAL NUMBER, kojin bangou kaado, shomeiyou
\* denshi shoumeisho, riyousha shoumeiyou denshi shoumeisho
mynumber_keywords ==
  <<<<20491, 20154, 30058, 21495>>, <<12510, 12452, 12490, 12531, 12496, 12540>>, <<73, 78, 68, 73, 86, 73, 68, 85, 65, 76, 32, 78, 85, 77, 66, 69, 82>>, <<20491, 20154, 30058, 21495, 12459, 12540, 12489>>,
    <<32626, 21517, 29992, 38651, 23376, 35388, 26126, 26360>>, <<21033, 29992, 32773, 35388, 26126, 29992, 38651, 23376, 35388, 26126, 26360>>>>

\* unten menkyoshou, menkyoshou bangou, menkyo no jouken, kouan iinkai,
\* futsuu, chuugata, oogata, nirin, gentsuki
license_keywords ==
  <<<<36939, 36578, 20813, 35377, 35388>>, <<20813, 35377, 35388, 30058, 21495>>, <<20813, 35377, 12398, 26465, 20214>>, <<20844, 23433, 22996, 21729, 20250>>,
    <<26222, 36890>>, <<20013, 22411>>, <<22823, 22411>>, <<20108, 36650>>, <<21407, 20184>>>>

\* for kw in kws: if kw in raw_text or kw.lower() in text_lower: score += 2
RECURSIVE score_keywords_ci(_, _, _, _)
score_keywords_ci(kws, raw, text_lower, score) ==
  IF kws = <<>> THEN score
  ELSE score_keywords_ci(Tail(kws), raw, text_lower,
         IF Contains(raw, Head(kws)) \/ Contains(text_lower, str_lower(Head(kws)))
         THEN score + 2 ELSE score)

\* for kw in kws: if kw in raw_text: score += 2
RECURSIVE score_keywords(_, _, _)
score_keywords(kws, raw, score) ==
  IF kws = <<>> THEN score
  ELSE score_keywords(Tail(kws), raw,
         IF Contains(raw, Head(kws)) THEN score + 2 ELSE score)

\* the scores dict after all signals are tallied (keys in insertion order:
\* RESIDENCE_CARD, MYNUMBER_CARD, DRIVING_LICENSE)
DocTypeOrder == <<DOC_RESIDENCE_CARD, DOC_MYNUMBER_CARD, DOC_DRIVING_LICENSE>>

\* a mutant of scores: the card-number shape weighs 3, less than two keywords
scores_weak_shape(raw) ==
  With(str_lower(raw), LAMBDA text_lower :
    [k \in {DOC_RESIDENCE_CARD, DOC_MYNUMBER_CARD, DOC_DRIVING_LICENSE} |->
       CASE k = DOC_RESIDENCE_CARD ->
              score_keywords_ci(residence_keywords, raw, text_lower, 0)
                + (IF re_search(residence_card_pattern, raw, NoFlags)[1] THEN 3 ELSE 0)
         [] k = DOC_MYNUMBER_CARD -> score_keywords_ci(mynumber_keywords, raw, text_lower, 0)
         [] k = DOC_DRIVING_LICENSE -> score_keywords(license_keywords, raw, 0)])

scores(raw) ==
  With(str_lower(raw), LAMBDA text_lower :
    [k \in {DOC_RESIDENCE_CARD, DOC_MYNUMBER_CARD, DOC_DRIVING_LICENSE} |->
       CASE k = DOC_RESIDENCE_CARD ->
              score_keywords_ci(residence_keywords, raw, text_lower, 0)
                + (IF re_search(residence_card_pattern, raw, NoFlags)[1] THEN 5 ELSE 0)
         [] k = DOC_MYNUMBER_CARD -> score_keywords_ci(mynumber_keywords, raw, text_lower, 0)
         [] k = DOC_DRIVING_LICENSE -> score_keywords(license_keywords, raw, 0)])

\* a mutant of dict_max: a later key replaces the best on an equal score
RECURSIVE dict_max_last(_, _, _)
dict_max_last(keys, sc, best) ==
  IF keys = <<>> THEN best
  ELSE dict_max_last(Tail(keys), sc, IF sc[Head(keys)] >= sc[best] THEN Head(keys) ELSE best)

\* max(scores, key=scores.get): the first key, in insertion order, of maximal score
RECURSIVE dict_max(_, _, _)
dict_max(keys, sc, best) ==
  IF keys = <<>> THEN best
  ELSE dict_max(Tail(keys), sc, IF sc[Head(keys)] > sc[best] THEN Head(keys) ELSE best)

detect_document_type(raw) ==
  IF raw = <<>> THEN DOC_RESIDENCE_CARD
  ELSE dict_max(Tail(DocTypeOrder), scores(raw), Head(DocTypeOrder))

\* ------------------------------------------------------------------------
\* Field extractors
\* ------------------------------------------------------------------------

\* \s and [:\s]
Ws == Chr(Space)
ColonWs == Chr({58} \cup Space)

\* (?:seibetsu|SEX|GENDER)\s*[:\s]*(otoko|onna|dansei|josei|M|F|Male|Female)
gender_labelled ==
  Cat(<<Alt(<<Lit(<<24615, 21029>>), Lit(<<83, 69, 88>>), Lit(<<71, 69, 78, 68, 69, 82>>)>>),
        Star(Ws), Star(ColonWs),
        Cap(Alt(<<Lit(<<30007>>), Lit(<<22899>>), Lit(<<30007, 24615>>), Lit(<<22899, 24615>>),
                  Lit(<<77>>), Lit(<<70>>), Lit(<<77, 97, 108, 101>>), Lit(<<70, 101, 109, 97, 108, 101>>)>>))>>)

\* a mutant of gender_standalone: nothing is required after the token,
\* (?:^|\s)(otoko|onna)
gender_standalone_no_end ==
  Cat(<<Alt(<<Bol, Ws>>), Cap(Alt(<<Lit(<<30007>>), Lit(<<22899>>)>>))>>)

\* (?:^|\s)(otoko|onna)(?:\s|$)
gender_standalone ==
  Cat(<<Alt(<<Bol, Ws>>), Cap(Alt(<<Lit(<<30007>>), Lit(<<22899>>)>>)), Alt(<<Ws, Eol>>)>>)

_extract_gender(text) ==
  With(re_search(gender_labelled, text, IGNORECASE), LAMBDA m1 :
    IF m1[1]
    THEN With(strip(group1(m1, text)), LAMBDA raw_gender :
           Some(dict_get(GENDER_MAP, raw_gender, raw_gender)))
    ELSE With(re_search(gender_standalone, text, IGNORECASE), LAMBDA m2 :
           IF m2[1]
           THEN With(strip(group1(m2, text)), LAMBDA raw_gender :
                  Some(dict_get(GENDER_MAP, raw_gender, raw_gender)))
           ELSE None))

\* character classes of the patterns
Upper == Chr(UpperAZ)
D == Chr(Digit)
NameChar == Chr(UpperAZ \cup Space \cup {45, 46})            \* [A-Z\s\-\.]
JpChar == Chr(Kanji \cup Hiragana \cup Katakana)             \* kanji, hiragana, katakana
KanjiChar == Chr(Kanji)
WsOrIdeo == Chr(Space \cup {12288})                          \* [\s + U+3000]
ColonWsNl == Chr({58, 10} \cup Space)                        \* [:\s\n]

\* any(ex in name for ex in exclude)
ContainsAny(text, words) == \E i \in 1..Len(words) : Contains(text, words[i])

\* re.sub(r, repl, s) for a pattern r that matches no empty string
RECURSIVE SubFrom(_, _, _, _, _)
SubFrom(r, repl, s, i, fl) ==
  IF i > Len(s) THEN <<>>
  ELSE With(Match(<<r>>, s, i, <<0, 0>>, fl), LAMBDA m :
         IF m[1] /\ m[2] > i
         THEN repl \o SubFrom(r, repl, s, m[2], fl)
         ELSE <<s[i]>> \o SubFrom(r, repl, s, i + 1, fl))

re_sub(r, repl, s, fl) == SubFrom(r, repl, s, 1, fl)

\* ---- _extract_romaji_name ----

\* (?:NAME)\s*\n\s*([A-Z][A-Z\s\-\.]+?)(?=\s*\n|$)
romaji_own_line ==
  Cat(<<Lit(<<78, 65, 77, 69>>), Star(Ws), Chr({10}), Star(Ws),
        Cap(Cat(<<Upper, LazyPlus(NameChar)>>)),
        Ahead(Alt(<<Cat(<<Star(Ws), Chr({10})>>), Eol>>))>>)

\* (?:NAME|shimei)\s*[:\s]*([A-Z][A-Z\s\-\.]+?)(?=\s*\n|kokuseki|$)
romaji_labelled ==
  Cat(<<Alt(<<Lit(<<78, 65, 77, 69>>), Lit(<<27663, 21517>>)>>), Star(Ws), Star(ColonWs),
        Cap(Cat(<<Upper, LazyPlus(NameChar)>>)),
        Ahead(Alt(<<Cat(<<Star(Ws), Chr({10})>>), Lit(<<22269, 31821>>), Eol>>))>>)

\* (?:^|\n)\s*([A-Z][A-Z\s\-\.]{4,})(?:\s*$|\n)
romaji_standalone ==
  Cat(<<Alt(<<Bol, Chr({10})>>), Star(Ws),
        Cap(Cat(<<Upper, Rep(NameChar, 4, -1, FALSE)>>)),
        Alt(<<Cat(<<Star(Ws), Eol>>), Chr({10})>>)>>)

romaji_exclude ==
  <<<<82, 69, 83, 73, 68, 69, 78, 67, 69>>, <<67, 65, 82, 68>>, <<74, 65, 80, 65, 78>>, <<73, 77, 77, 73, 71, 82, 65, 84, 73, 79, 78>>, <<68, 65, 84, 69>>, <<66, 73, 82, 84, 72>>,
    <<78, 65, 84, 73, 79, 78, 65, 76, 73, 84, 89>>, <<82, 69, 71, 73, 79, 78>>, <<83, 84, 65, 84, 85, 83>>, <<80, 69, 82, 73, 79, 68>>, <<83, 84, 65, 89>>, <<69, 88, 80, 73, 82, 89>>,
    <<87, 79, 82, 75>>, <<82, 69, 83, 84, 82, 73, 67, 84, 73, 79, 78>>, <<78, 85, 77, 66, 69, 82>>, <<83, 69, 88>>>>

\* for pattern in patterns: only the first matching pattern is looked at
RECURSIVE romaji_try_first_match(_, _)
romaji_try_first_match(patterns, text) ==
  IF patterns = <<>> THEN None
  ELSE With(re_search(Head(patterns), text, MULTILINE), LAMBDA m :
         IF ~m[1] THEN romaji_try_first_match(Tail(patterns), text)
         ELSE With(strip(group1(m, text)), LAMBDA name :
                IF ~ContainsAny(name, romaji_exclude) /\ Len(name) > 3
                THEN Some(name)
                ELSE None))

\* for pattern in patterns: the first match whose stripped group passes the filter
RECURSIVE romaji_try(_, _)
romaji_try(patterns, text) ==
  IF patterns = <<>> THEN None
  ELSE With(re_search(Head(patterns), text, MULTILINE), LAMBDA m :
         With(strip(group1(m, text)), LAMBDA name :
           IF m[1] /\ ~ContainsAny(name, romaji_exclude) /\ Len(name) > 3
           THEN Some(name)
           ELSE romaji_try(Tail(patterns), text)))

_extract_romaji_name(text) ==
  romaji_try(<<romaji_own_line, romaji_labelled, romaji_standalone>>, text)

\* ---- _extract_japanese_name ----

\* (?:shimei|namae)\s*[:\s]*([jp]+[\s + U+3000]?[jp]*)
japanese_name_pattern ==
  Cat(<<Alt(<<Lit(<<27663, 21517>>), Lit(<<21517, 21069>>)>>), Star(Ws), Star(ColonWs),
        Cap(Cat(<<Plus(JpChar), Opt(WsOrIdeo), Star(JpChar)>>))>>)

_extract_japanese_name(text) ==
  With(re_search(japanese_name_pattern, text, NoFlags), LAMBDA m :
    IF m[1] THEN Some(strip(group1(m, text))) ELSE None)

\* ---- _extract_nationality, _extract_region ----

NATIONALITY_MAP ==
  << <<<<20013, 22269>>, <<67, 72, 73, 78, 65>>>>, <<<<38867, 22269>>, <<83, 79, 85, 84, 72, 32, 75, 79, 82, 69, 65>>>>,
     <<<<12501, 12451, 12522, 12500, 12531>>, <<80, 72, 73, 76, 73, 80, 80, 73, 78, 69, 83>>>>, <<<<12505, 12488, 12490, 12512>>, <<86, 73, 69, 84, 78, 65, 77>>>>,
     <<<<12502, 12521, 12472, 12523>>, <<66, 82, 65, 90, 73, 76>>>>, <<<<12493, 12497, 12540, 12523>>, <<78, 69, 80, 65, 76>>>>,
     <<<<12452, 12531, 12489, 12493, 12471, 12450>>, <<73, 78, 68, 79, 78, 69, 83, 73, 65>>>>, <<<<21488, 28286>>, <<84, 65, 73, 87, 65, 78>>>>,
     <<<<12479, 12452>>, <<84, 72, 65, 73, 76, 65, 78, 68>>>>, <<<<31859, 22269>>, <<85, 83, 65>>>>,
     <<<<12450, 12513, 12522, 12459>>, <<85, 83, 65>>>>, <<<<12452, 12531, 12489>>, <<73, 78, 68, 73, 65>>>>,
     <<<<12511, 12515, 12531, 12510, 12540>>, <<77, 89, 65, 78, 77, 65, 82>>>>, <<<<12496, 12531, 12464, 12521, 12487, 12471, 12517>>, <<66, 65, 78, 71, 76, 65, 68, 69, 83, 72>>>>,
     <<<<12473, 12522, 12521, 12531, 12459>>, <<83, 82, 73, 32, 76, 65, 78, 75, 65>>>>, <<<<12497, 12461, 12473, 12479, 12531>>, <<80, 65, 75, 73, 83, 84, 65, 78>>>>,
     <<<<12506, 12523, 12540>>, <<80, 69, 82, 85>>>> >>

\* for jp, en in NATIONALITY_MAP.items(): if jp in text: return <<jp, en>>
RECURSIVE nationality_scan(_, _)
nationality_scan(table, text) ==
  IF table = <<>> THEN None
  ELSE IF Contains(text, Head(table)[1]) THEN Some(Head(table))
  ELSE nationality_scan(Tail(table), text)

\* the lookahead tail (?=\s*(?:alternatives))
Until(alts) == Ahead(Cat(<<Star(Ws), Alt(alts)>>))

\* (?:kokuseki)[nakaguro/\s]*(?:chiiki)?[:\s\n]*([^\n\d]+?)(?=\s*(?:seinen|DATE|$|\n))
nationality_jp ==
  Cat(<<Lit(<<22269, 31821>>), Star(Chr({12539, 47} \cup Space)), Opt(Lit(<<22320, 22495>>)),
        Star(ColonWsNl), Cap(LazyPlus(NotChr({10} \cup Digit))),
        Until(<<Lit(<<29983, 24180>>), Lit(<<68, 65, 84, 69>>), Eol, Chr({10})>>)>>)

\* NATIONALITY[/\s]*REGION[:\s\n]*(.+?)(?=\s*(?:seinen|DATE|$|\n))
nationality_en ==
  Cat(<<Lit(<<78, 65, 84, 73, 79, 78, 65, 76, 73, 84, 89>>), Star(Chr({47} \cup Space)), Lit(<<82, 69, 71, 73, 79, 78>>),
        Star(ColonWsNl), Cap(LazyPlus(Dot)),
        Until(<<Lit(<<29983, 24180>>), Lit(<<68, 65, 84, 69>>), Eol, Chr({10})>>)>>)

RECURSIVE nationality_try(_, _)
nationality_try(patterns, text) ==
  IF patterns = <<>> THEN None
  ELSE With(re_search(Head(patterns), text, IGNORECASE), LAMBDA m :
         With(strip(group1(m, text)), LAMBDA nationality :
           With(nationality_scan(NATIONALITY_MAP, nationality), LAMBDA known :
             IF m[1] /\ known # None THEN Some(known[1][2])
             ELSE IF m[1] /\ nationality # <<>>
                     /\ nationality \notin {<<78, 65, 84, 73, 79, 78, 65, 76, 73, 84, 89>>, <<82, 69, 71, 73, 79, 78>>, <<22320, 22495>>}
             THEN Some(nationality)
             ELSE nationality_try(Tail(patterns), text))))

_extract_nationality(text) ==
  With(nationality_scan(NATIONALITY_MAP, text), LAMBDA known :
    IF known # None THEN Some(known[1][2])
    ELSE nationality_try(<<nationality_jp, nationality_en>>, text))

\* chiiki\s*[:\s\n]*([^\n]+?)(?=\s*(?:seinen|$|\n))
region_pattern ==
  Cat(<<Lit(<<22320, 22495>>), Star(Ws), Star(ColonWsNl), Cap(LazyPlus(NotChr({10}))),
        Until(<<Lit(<<29983, 24180>>), Eol, Chr({10})>>)>>)

_extract_region(text) ==
  With(nationality_scan(NATIONALITY_MAP, text), LAMBDA known :
    IF known # None THEN Some(known[1][1])
    ELSE With(re_search(region_pattern, text, NoFlags), LAMBDA m :
           With(strip(group1(m, text)), LAMBDA region :
             IF m[1] /\ region # <<>> /\ region \notin {<<22269, 31821>>, <<78, 65, 84, 73, 79, 78, 65, 76, 73, 84, 89>>}
             THEN Some(region)
             ELSE None)))

\* ---- _extract_residence_status ----

RESIDENCE_STATUS_LIST ==
  <<<<25216, 34899, 12539, 20154, 25991, 30693, 35672, 12539, 22269, 38555, 26989, 21209>>, <<25216, 34899, 183, 20154, 25991, 30693, 35672, 183, 22269, 38555, 26989, 21209>>,
    <<29305, 23450, 25216, 33021, 49, 21495>>, <<29305, 23450, 25216, 33021, 50, 21495>>, <<25216, 33021, 23455, 32722, 49, 21495>>, <<25216, 33021, 23455, 32722, 50, 21495>>,
    <<25216, 33021, 23455, 32722, 51, 21495>>, <<30041, 23398>>, <<23478, 26063, 28382, 22312>>, <<26085, 26412, 20154, 12398, 37197, 20598, 32773, 31561>>,
    <<27704, 20303, 32773, 12398, 37197, 20598, 32773, 31561>>, <<27704, 20303, 32773>>, <<23450, 20303, 32773>>, <<29305, 21029, 27704, 20303, 32773>>,
    <<25216, 33021>>, <<32076, 21942, 12539, 31649, 29702>>, <<20225, 26989, 20869, 36578, 21220>>, <<30740, 31350>>, <<25945, 32946>>,
    <<39640, 24230, 23554, 38272, 32887, 49, 21495>>, <<39640, 24230, 23554, 38272, 32887, 50, 21495>>, <<20171, 35703>>, <<29305, 23450, 27963, 21205>>>>

\* for w in words: if w in text: return w
RECURSIVE first_contained(_, _)
first_contained(words, text) ==
  IF words = <<>> THEN None
  ELSE IF Contains(text, Head(words)) THEN Some(Head(words))
  ELSE first_contained(Tail(words), text)

\* (?:zairyu shikaku)\s*[:\s\n]*(.+?)(?=\s*(?:zairyu kikan|PERIOD|$|\n))
status_jp ==
  Cat(<<Lit(<<22312, 30041, 36039, 26684>>), Star(Ws), Star(ColonWsNl), Cap(LazyPlus(Dot)),
        Until(<<Lit(<<22312, 30041, 26399, 38291>>), Lit(<<80, 69, 82, 73, 79, 68>>), Eol, Chr({10})>>)>>)

\* (?:STATUS)\s*[:\s\n]*(.+?)(?=\s*(?:zairyu kikan|PERIOD|$|\n))
status_en ==
  Cat(<<Lit(<<83, 84, 65, 84, 85, 83>>), Star(Ws), Star(ColonWsNl), Cap(LazyPlus(Dot)),
        Until(<<Lit(<<22312, 30041, 26399, 38291>>), Lit(<<80, 69, 82, 73, 79, 68>>), Eol, Chr({10})>>)>>)

RECURSIVE status_try(_, _)
status_try(patterns, text) ==
  IF patterns = <<>> THEN None
  ELSE With(re_search(Head(patterns), text, IGNORECASE), LAMBDA m :
         With(strip(group1(m, text)), LAMBDA status :
           IF m[1] /\ status # <<>> /\ status \notin {<<83, 84, 65, 84, 85, 83>>, <<22312, 30041, 36039, 26684>>}
           THEN Some(status)
           ELSE status_try(Tail(patterns), text)))

_extract_residence_status(text) ==
  With(first_contained(RESIDENCE_STATUS_LIST, text), LAMBDA known :
    IF known # None THEN known
    ELSE status_try(<<status_jp, status_en>>, text))

\* ---- _extract_period_of_stay ----

\* (\d+nen\d*gatsu?)
period_value == Cap(Cat(<<Plus(D), Lit(<<24180>>), Star(D), Opt(Lit(<<26376>>))>>))

\* (?:zairyu kikan)\s*[:\s\n]*(\d+nen\d*gatsu?)
period_jp == Cat(<<Lit(<<22312, 30041, 26399, 38291>>), Star(Ws), Star(ColonWsNl), period_value>>)

\* (?:PERIOD\s*OF\s*STAY)\s*[:\s\n]*(\d+nen\d*gatsu?)
period_en ==
  Cat(<<Lit(<<80, 69, 82, 73, 79, 68>>), Star(Ws), Lit(<<79, 70>>), Star(Ws), Lit(<<83, 84, 65, 89>>),
        Star(Ws), Star(ColonWsNl), period_value>>)

\* (\d+nen(?:\d+gatsu)?)\s*(?:made|kan)
period_until ==
  Cat(<<Cap(Cat(<<Plus(D), Lit(<<24180>>), Opt(Cat(<<Plus(D), Lit(<<26376>>)>>))>>)),
        Star(Ws), Alt(<<Lit(<<12414, 12391>>), Lit(<<38291>>)>>)>>)

RECURSIVE period_try(_, _)
period_try(patterns, text) ==
  IF patterns = <<>> THEN None
  ELSE With(re_search(Head(patterns), text, IGNORECASE), LAMBDA m :
         With(strip(group1(m, text)), LAMBDA period :
           IF m[1] /\ period # <<>> THEN Some(period)
           ELSE period_try(Tail(patterns), text)))

_extract_period_of_stay(text) ==
  period_try(<<period_jp, period_en, period_until>>, text)

\* ---- _extract_work_restriction ----

restriction_statuses ==
  <<<<23601, 21172, 21046, 38480, 12394, 12375>>, <<23601, 21172, 19981, 21487>>, <<22312, 30041, 36039, 26684, 12395, 22522, 12389, 12367, 23601, 21172, 27963, 21205, 12398, 12415, 21487>>,
    <<25351, 23450, 26360, 35352, 36617, 27231, 38306, 12391, 12398, 22312, 30041, 36039, 26684, 12395, 22522, 12389, 12367, 23601, 21172, 27963, 21205, 12398, 12415, 21487>>,
    <<36039, 26684, 22806, 27963, 21205, 35377, 21487, 26360, 12395, 35352, 36617, 12373, 12428, 12383, 31684, 22258, 20869, 12398, 23601, 21172, 21487>>>>

_extract_work_restriction(text) ==
  With(first_contained(restriction_statuses, text), LAMBDA known :
     IF known # None THEN known
     ELSE IF Contains(text, <<23601, 21172, 21046, 38480, 12394, 12375>>) \/ Contains(text, <<21046, 38480, 12394, 12375>>)
     THEN Some(<<23601, 21172, 21046, 38480, 12394, 12375>>)
     ELSE IF Contains(text, <<23601, 21172, 19981, 21487>>) THEN Some(<<23601, 21172, 19981, 21487>>)
     ELSE IF Contains(text, <<36039, 26684, 22806, 27963, 21205, 35377, 21487>>) THEN Some(<<36039, 26684, 22806, 27963, 21205, 35377, 21487, 12354, 12426>>)
     ELSE None)

\* ---- _extract_residence_card_number ----

_extract_residence_card_number(text) ==
  With(re_search(residence_card_pattern, text, NoFlags), LAMBDA m :
    IF m[1] THEN Some(group0(m, text)) ELSE None)

\* ---- _extract_japanese_name_mynumber ----

\* (?:shimei)\s*\n\s*([jp]+[\s + U+3000]+[jp]+)
mynumber_name_own_line ==
  Cat(<<Lit(<<27663, 21517>>), Star(Ws), Chr({10}), Star(Ws),
        Cap(Cat(<<Plus(JpChar), Plus(WsOrIdeo), Plus(JpChar)>>))>>)

\* (?:shimei)\s*[:\s]*([jp]+[\s + U+3000]+[jp]+)
mynumber_name_labelled ==
  Cat(<<Lit(<<27663, 21517>>), Star(Ws), Star(ColonWs),
        Cap(Cat(<<Plus(JpChar), Plus(WsOrIdeo), Plus(JpChar)>>))>>)

\* (?:^|\n)([kanji]{1,4}[\s + U+3000]+[kanji hiragana]+)(?=\s*\n)
mynumber_name_standalone ==
  Cat(<<Alt(<<Bol, Chr({10})>>),
        Cap(Cat(<<Rep(KanjiChar, 1, 4, FALSE), Plus(WsOrIdeo),
                  Plus(Chr(Kanji \cup Hiragana))>>)),
        Ahead(Cat(<<Star(Ws), Chr({10})>>))>>)

\* seinen, gappi, yuukou, bangou, juusho
mynumber_name_exclude == <<<<29983, 24180>>, <<26376, 26085>>, <<26377, 21177>>, <<30058, 21495>>, <<20303, 25152>>>>

RECURSIVE mynumber_name_try(_, _)
mynumber_name_try(patterns, text) ==
  IF patterns = <<>> THEN None
  ELSE With(re_search(Head(patterns), text, MULTILINE), LAMBDA m :
         With(strip(group1(m, text)), LAMBDA name :
           IF m[1] /\ Len(name) >= 2 /\ ~ContainsAny(name, mynumber_name_exclude)
           THEN Some(name)
           ELSE mynumber_name_try(Tail(patterns), text)))

_extract_japanese_name_mynumber(text) ==
  mynumber_name_try(
    <<mynumber_name_own_line, mynumber_name_labelled, mynumber_name_standalone>>, text)

\* ---- _extract_mynumber ----

\* mynumber_pattern: \b\d{12}\b
mynumber_pattern == Cat(<<WordB, Times(D, 12), WordB>>)

\* (?:kojin bangou|mainanbaa)\s*[:\s]*(\d{12})
mynumber_labelled ==
  Cat(<<Alt(<<Lit(<<20491, 20154, 30058, 21495>>), Lit(<<12510, 12452, 12490, 12531, 12496, 12540>>)>>), Star(Ws), Star(ColonWs),
        Cap(Times(D, 12))>>)

\* (?:kojin bangou|mainanbaa)\s*[:\s]*(\d{4}\s*\d{4}\s*\d{4})
mynumber_grouped ==
  Cat(<<Alt(<<Lit(<<20491, 20154, 30058, 21495>>), Lit(<<12510, 12452, 12490, 12531, 12496, 12540>>)>>), Star(Ws), Star(ColonWs),
        Cap(Cat(<<Times(D, 4), Star(Ws), Times(D, 4), Star(Ws), Times(D, 4)>>))>>)

\* re.sub(r'\s', '', s)
remove_ws(s) == SelectSeq(s, LAMBDA c : c \notin Space)

\* a mutant of _extract_mynumber: the bare 12-digit number is looked for
\* before the labelled forms
_extract_mynumber_bare_first(text) ==
  With(re_search(mynumber_pattern, text, NoFlags), LAMBDA m3 :
    IF m3[1] THEN Some(group0(m3, text))
    ELSE With(re_search(mynumber_labelled, text, NoFlags), LAMBDA m1 :
           IF m1[1] THEN Some(remove_ws(group1(m1, text)))
           ELSE With(re_search(mynumber_grouped, text, NoFlags), LAMBDA m2 :
                  IF m2[1] THEN Some(remove_ws(group1(m2, text))) ELSE None)))

_extract_mynumber(text) ==
  With(re_search(mynumber_labelled, text, NoFlags), LAMBDA m1 :
    IF m1[1] THEN Some(remove_ws(group1(m1, text)))
    ELSE With(re_search(mynumber_grouped, text, NoFlags), LAMBDA m2 :
           IF m2[1] THEN Some(remove_ws(group1(m2, text)))
           ELSE With(re_search(mynumber_pattern, text, NoFlags), LAMBDA m3 :
                  IF m3[1] THEN Some(group0(m3, text)) ELSE None)))

\* ---- _extract_address_mynumber ----

\* (?:juusho)\s*[:\s]*(.+?)(?=\s*(?:seinen|shimei|yuukou|$))
address_mynumber_labelled ==
  Cat(<<Lit(<<20303, 25152>>), Star(Ws), Star(ColonWs), Cap(LazyPlus(Dot)),
        Until(<<Lit(<<29983, 24180>>), Lit(<<27663, 21517>>), Lit(<<26377, 21177>>), Eol>>)>>)

\* ([kanji]+[to dou fu ken][kanji\d\-]+)
address_mynumber_prefecture ==
  Cap(Cat(<<Plus(KanjiChar), Chr({<<37117>>[1], <<36947>>[1], <<24220>>[1], <<30476>>[1]}),
            Plus(Chr(Kanji \cup Digit \cup {45}))>>))

\* address.strip() alone, whitespace inside the address left as it is
squeeze_strip_only(s) == strip(s)

\* address.strip(); re.sub(r'\s+', ' ', address)
squeeze(s) == sub_runs(Space, 32, strip(s))

RECURSIVE address_mynumber_try(_, _)
address_mynumber_try(patterns, text) ==
  IF patterns = <<>> THEN None
  ELSE With(re_search(Head(patterns), text, DOTALL), LAMBDA m :
         With(squeeze(group1(m, text)), LAMBDA address :
           IF m[1] /\ Len(address) > 5 THEN Some(address)
           ELSE address_mynumber_try(Tail(patterns), text)))

_extract_address_mynumber(text) ==
  address_mynumber_try(<<address_mynumber_labelled, address_mynumber_prefecture>>, text)

\* ---- _extract_japanese_name_license ----

\* (?:shimei)\s*[:\s]*([jp\s]+?)(?=\s*(?:seinen|shouwa|heisei|reiwa|\d))
license_name_pattern ==
  Cat(<<Lit(<<27663, 21517>>), Star(Ws), Star(ColonWs),
        Cap(LazyPlus(Chr(Kanji \cup Hiragana \cup Katakana \cup Space))),
        Until(<<Lit(<<29983, 24180>>), Lit(<<26157, 21644>>), Lit(<<24179, 25104>>), Lit(<<20196, 21644>>), D>>)>>)

_extract_japanese_name_license(text) ==
  With(re_search(license_name_pattern, text, NoFlags), LAMBDA m :
    With(strip(group1(m, text)), LAMBDA name :
      IF m[1] /\ Len(name) >= 2 THEN Some(name) ELSE None))

\* ---- _extract_license_number ----

\* license_number_pattern: \b\d{12}\b|\b\d{2}-\d{2}-\d{6}-\d{2}\b
license_number_pattern ==
  Alt(<<Cat(<<WordB, Times(D, 12), WordB>>),
        Cat(<<WordB, Times(D, 2), Chr({45}), Times(D, 2), Chr({45}),
              Times(D, 6), Chr({45}), Times(D, 2), WordB>>)>>)

\* (?:menkyoshou bangou|bangou)\s*[:\s]*(\d[\d\-]+)
license_number_labelled ==
  Cat(<<Alt(<<Lit(<<20813, 35377, 35388, 30058, 21495>>), Lit(<<30058, 21495>>)>>), Star(Ws), Star(ColonWs),
        Cap(Cat(<<D, Plus(Chr(Digit \cup {45}))>>))>>)

\* dai\s*(\d{12})\s*gou
license_number_dai ==
  Cat(<<Lit(<<31532>>), Star(Ws), Cap(Times(D, 12)), Star(Ws), Lit(<<21495>>)>>)

_extract_license_number(text) ==
  With(re_search(license_number_labelled, text, NoFlags), LAMBDA m1 :
    IF m1[1] THEN Some(strip(group1(m1, text)))
    ELSE With(re_search(license_number_dai, text, NoFlags), LAMBDA m2 :
           IF m2[1] THEN Some(strip(group1(m2, text)))
           ELSE With(re_search(license_number_pattern, text, NoFlags), LAMBDA m3 :
                  IF m3[1] THEN Some(group0(m3, text)) ELSE None)))

\* ---- _extract_address_license ----

\* (?:juusho)\s*[:\s]*(.+?)(?=\s*(?:shimei|seinen|koufu|$|\n))
address_license_pattern ==
  Cat(<<Lit(<<20303, 25152>>), Star(Ws), Star(ColonWs), Cap(LazyPlus(Dot)),
        Until(<<Lit(<<27663, 21517>>), Lit(<<29983, 24180>>), Lit(<<20132, 20184>>), Eol, Chr({10})>>)>>)

_extract_address_license(text) ==
  With(re_search(address_license_pattern, text, DOTALL), LAMBDA m :
    With(squeeze(group1(m, text)), LAMBDA address :
      IF m[1] /\ Len(address) > 5 THEN Some(address) ELSE None))

\* ---- _extract_license_categories ----

\* oogata, chuugata, jun-chuugata, futsuu, daitoku, daijini, fujini,
\* kotoku, gentsuki, keninn, daini, chuuni, funi
category_list ==
  <<<<22823, 22411>>, <<20013, 22411>>, <<28310, 20013, 22411>>, <<26222, 36890>>, <<22823, 29305>>, <<22823, 33258, 20108>>, <<26222, 33258, 20108>>,
    <<23567, 29305>>, <<21407, 20184>>, <<12369, 24341>>, <<22823, 20108>>, <<20013, 20108>>, <<26222, 20108>>>>

\* a mutant of collect_categories: a matched category is put in front of the
\* list instead of at its end
RECURSIVE collect_categories_prepend(_, _, _)
collect_categories_prepend(cats, text, categories) ==
  IF cats = <<>> THEN categories
  ELSE collect_categories_prepend(Tail(cats), text,
         IF Contains(text, Head(cats)) THEN <<Head(cats)>> \o categories
         ELSE categories)

\* for cat in cats: if cat in text: categories.append(cat)
RECURSIVE collect_categories(_, _, _)
collect_categories(cats, text, categories) ==
  IF cats = <<>> THEN categories
  ELSE collect_categories(Tail(cats), text,
         IF Contains(text, Head(cats)) THEN Append(categories, Head(cats))
         ELSE categories)

_extract_license_categories(text) ==
  With(collect_categories(category_list, text, <<>>), LAMBDA categories :
    IF categories # <<>> THEN Some(categories) ELSE None)

\* ---- _extract_license_conditions ----

known_conditions ==
  <<<<30524, 37857, 31561>>, <<65, 84, 38480, 23450>>, <<35036, 32884, 22120>>, <<22823, 22411, 36554, 40, 56, 116, 41, 12395, 38480, 12427>>,
    <<20013, 22411, 36554, 40, 56, 116, 41, 12395, 38480, 12427>>, <<28310, 20013, 22411, 36554, 40, 53, 116, 41, 12395, 38480, 12427>>>>

\* (?:menkyo no jouken|jouken tou?)[:\s]*([^\n]+?)(?=\s*(?:$|\n|shurui|koufu|bikou))
conditions_pattern ==
  Cat(<<Alt(<<Lit(<<20813, 35377, 12398, 26465, 20214>>), Cat(<<Lit(<<26465, 20214>>), Opt(Lit(<<31561>>))>>)>>),
        Star(ColonWs), Cap(LazyPlus(NotChr({10}))),
        Until(<<Eol, Chr({10}), Lit(<<31278, 39006>>), Lit(<<20132, 20184>>), Lit(<<20633, 32771>>)>>)>>)

_extract_license_conditions(text) ==
  With(first_contained(known_conditions, text), LAMBDA known :
    IF known # None THEN known
    ELSE With(re_search(conditions_pattern, text, NoFlags), LAMBDA m :
           With(strip(group1(m, text)), LAMBDA conditions :
             IF m[1] /\ conditions # <<>> /\ conditions \notin {<<12394, 12375>>, <<31561>>}
             THEN Some(conditions)
             ELSE None)))

\* ---- _extract_issuing_authority ----

\* ([kanji]+kouan iinkai)
issuing_authority_pattern == Cap(Cat(<<Plus(KanjiChar), Lit(<<20844, 23433, 22996, 21729, 20250>>)>>))

_extract_issuing_authority(text) ==
  With(re_search(issuing_authority_pattern, text, NoFlags), LAMBDA m :
    IF m[1] THEN Some(strip(group1(m, text))) ELSE None)

\* ---- _extract_date_field ----

\* \d{1,2}nen\d{1,2}gatsu\d{1,2}nichi
era_ymd ==
  Cat(<<Rep(D, 1, 2, FALSE), Lit(<<24180>>), Rep(D, 1, 2, FALSE), Lit(<<26376>>),
        Rep(D, 1, 2, FALSE), Lit(<<26085>>)>>)

\* jp_date_pattern: (\d{4}nen\d{1,2}gatsu\d{1,2}nichi)|(reiwa...)|(heisei...)|(shouwa...)
\* each alternative is one group, so the group that took part is the match
jp_date_pattern ==
  Alt(<<Cat(<<Times(D, 4), Lit(<<24180>>), Rep(D, 1, 2, FALSE), Lit(<<26376>>),
              Rep(D, 1, 2, FALSE), Lit(<<26085>>)>>),
        Cat(<<Lit(<<20196, 21644>>), era_ymd>>),
        Cat(<<Lit(<<24179, 25104>>), era_ymd>>),
        Cat(<<Lit(<<26157, 21644>>), era_ymd>>)>>)

\* \d+nen|\d+gatsu|\d+nichi|reiwa|heisei|shouwa
date_indicator ==
  Alt(<<Cat(<<Plus(D), Lit(<<24180>>)>>), Cat(<<Plus(D), Lit(<<26376>>)>>),
        Cat(<<Plus(D), Lit(<<26085>>)>>), Lit(<<20196, 21644>>), Lit(<<24179, 25104>>), Lit(<<26157, 21644>>)>>)

\* {re.escape(label)}\s*[:\s]*([^\n]+?)(?=\s*(?:$|\n|[a-zA-Z kanji]{2}))
date_value_until ==
  Cat(<<Star(Ws), Star(ColonWs), Cap(LazyPlus(NotChr({10}))),
        Until(<<Eol, Chr({10}), Times(Chr(LowerAZ \cup UpperAZ \cup Kanji), 2)>>)>>)

date_after_label(label) == Cat(<<Lit(label), date_value_until>>)

\* text.find(label): the first index (1-based) of label in text, 0 when absent
RECURSIVE FindFrom(_, _, _)
FindFrom(text, kw, i) ==
  IF i + Len(kw) - 1 > Len(text) THEN 0
  ELSE IF SubSeq(text, i, i + Len(kw) - 1) = kw THEN i
  ELSE FindFrom(text, kw, i + 1)

\* text[idx:idx+50]
SearchWindow == 50

\* the second loop: any date within the window that starts at a label
RECURSIVE date_near_label(_, _)
date_near_label(text, labels) ==
  IF labels = <<>> THEN None
  ELSE With(FindFrom(text, Head(labels), 1), LAMBDA idx :
         With(IF idx + SearchWindow - 1 < Len(text)
              THEN idx + SearchWindow - 1 ELSE Len(text), LAMBDA last :
           With(SubSeq(text, idx, last), LAMBDA search_area :
             With(re_search(jp_date_pattern, search_area, NoFlags), LAMBDA dm :
               IF idx > 0 /\ dm[1] THEN Some(group0(dm, search_area))
               ELSE date_near_label(text, Tail(labels))))))

\* the first loop without the check for a date indicator
RECURSIVE date_after_labels_any_text(_, _, _)
date_after_labels_any_text(text, labels, all_labels) ==
  IF labels = <<>> THEN date_near_label(text, all_labels)
  ELSE With(re_search(date_after_label(Head(labels)), text, NoFlags), LAMBDA m :
         With(strip(group1(m, text)), LAMBDA date_text :
           With(re_search(jp_date_pattern, date_text, NoFlags), LAMBDA dm :
             IF m[1] /\ dm[1] THEN Some(group0(dm, date_text))
             ELSE IF m[1] THEN Some(date_text)
             ELSE date_after_labels_any_text(text, Tail(labels), all_labels))))

\* the first loop: a date, or text with a date indicator, right after a label
RECURSIVE date_after_labels(_, _, _)
date_after_labels(text, labels, all_labels) ==
  IF labels = <<>> THEN date_near_label(text, all_labels)
  ELSE With(re_search(date_after_label(Head(labels)), text, NoFlags), LAMBDA m :
         With(strip(group1(m, text)), LAMBDA date_text :
           With(re_search(jp_date_pattern, date_text, NoFlags), LAMBDA dm :
             IF m[1] /\ dm[1] THEN Some(group0(dm, date_text))
             ELSE IF m[1] /\ re_search(date_indicator, date_text, NoFlags)[1]
             THEN Some(date_text)
             ELSE date_after_labels(text, Tail(labels), all_labels))))

_extract_date_field(text, labels) == date_after_labels(text, labels, labels)

\* ---- _extract_address ----

\* (?:juukyochi|juusho|ADDRESS)\s*[:\s]*(.+?)(?=\s*(?:[A-Z]{2}\d{8}[A-Z]{2}|
\*   zairyu kaado bangou|RESIDENCE CARD NUMBER|zairyu|shuurou|$|\n\n))
address_pattern ==
  Cat(<<Alt(<<Lit(<<20303, 23621, 22320>>), Lit(<<20303, 25152>>), Lit(<<65, 68, 68, 82, 69, 83, 83>>)>>),
        Star(Ws), Star(ColonWs), Cap(LazyPlus(Dot)),
        Until(<<residence_card_pattern, Lit(<<22312, 30041, 12459, 12540, 12489, 30058, 21495>>),
                Lit(<<82, 69, 83, 73, 68, 69, 78, 67, 69, 32, 67, 65, 82, 68, 32, 78, 85, 77, 66, 69, 82>>), Lit(<<22312, 30041>>), Lit(<<23601, 21172>>),
                Eol, Lit(<<10, 10>>)>>)>>)

_extract_address(text) ==
  With(re_search(address_pattern, text, IGNORECASE_DOTALL), LAMBDA m :
    With(strip(re_sub(residence_card_pattern, <<>>,
                      squeeze(group1(m, text)), NoFlags)), LAMBDA address :
      IF m[1] /\ Len(address) > 5 THEN Some(address) ELSE None))

\* ------------------------------------------------------------------------
\* The three pipelines, _empty_result and extract
\* ------------------------------------------------------------------------

extract_residence_card(raw) ==
  With(normalize_text(raw), LAMBDA text :
     [document_type |-> DOC_RESIDENCE_CARD,
      full_name |-> _extract_romaji_name(text),
      full_name_japanese |-> _extract_japanese_name(text),
      date_of_birth |-> _extract_date_field(text, <<<<29983, 24180, 26376, 26085>>, <<68, 65, 84, 69, 32, 79, 70, 32, 66, 73, 82, 84, 72>>>>),
      nationality |-> _extract_nationality(text),
      region |-> _extract_region(text),
      gender |-> _extract_gender(text),
      status_of_residence |-> _extract_residence_status(text),
      period_of_stay |-> _extract_period_of_stay(text),
      work_restriction |-> _extract_work_restriction(text),
      card_number |-> _extract_residence_card_number(text),
      issue_date |-> _extract_date_field(text, <<<<20132, 20184, 24180, 26376, 26085>>, <<68, 65, 84, 69, 32, 79, 70, 32, 73, 83, 83, 85, 69>>>>),
      expiry_date |-> _extract_date_field(text,
                        <<<<26377, 21177, 26399, 38480>>, <<68, 65, 84, 69, 32, 79, 70, 32, 69, 88, 80, 73, 82, 89>>, <<12414, 12391, 26377, 21177>>>>),
      address |-> _extract_address(text)])

extract_mynumber_card(raw) ==
  With(normalize_text(raw), LAMBDA text :
     [document_type |-> DOC_MYNUMBER_CARD,
      full_name |-> _extract_japanese_name_mynumber(text),
      full_name_romaji |-> _extract_romaji_name(text),
      date_of_birth |-> _extract_date_field(text, <<<<29983, 24180, 26376, 26085>>>>),
      gender |-> _extract_gender(text),
      address |-> _extract_address_mynumber(text),
      my_number |-> _extract_mynumber(text),
      issue_date |-> _extract_date_field(text, <<<<30330, 34892>>>>),
      expiry_date |-> _extract_date_field(text, <<<<26377, 21177, 26399, 38480>>, <<12414, 12391, 26377, 21177>>>>),
      digital_cert_expiry |-> _extract_date_field(text,
                                <<<<32626, 21517, 29992, 38651, 23376, 35388, 26126, 26360>>, <<38651, 23376, 35388, 26126, 26360, 12398, 26377, 21177, 26399, 38480>>>>)])

extract_driving_license(raw) ==
  With(normalize_text(raw), LAMBDA text :
     [document_type |-> DOC_DRIVING_LICENSE,
      full_name |-> _extract_japanese_name_license(text),
      date_of_birth |-> _extract_date_field(text, <<<<29983, 24180, 26376, 26085>>>>),
      address |-> _extract_address_license(text),
      license_number |-> _extract_license_number(text),
      issue_date |-> _extract_date_field(text, <<<<20132, 20184>>, <<20132, 20184, 24180, 26376, 26085>>>>),
      expiry_date |-> _extract_date_field(text, <<<<26377, 21177, 26399, 38480>>, <<12414, 12391, 26377, 21177>>>>),
      license_categories |-> _extract_license_categories(text),
      conditions |-> _extract_license_conditions(text),
      issuing_authority |-> _extract_issuing_authority(text)])

Range(f) == {f[i] : i \in DOMAIN f}

\* {"document_type": document_type, **{f: None for f in fields}}
empty_fields(dt, fields) ==
  [k \in {"document_type"} \cup Range(fields) |->
     IF k = "document_type" THEN dt ELSE None]

\* a mutant of _empty_result: an unknown type gets the Residence Card schema
_empty_result_default_schema(dt) ==
  IF dt = DOC_MYNUMBER_CARD THEN empty_fields(dt, MYNUMBER_CARD_FIELDS)
  ELSE IF dt = DOC_DRIVING_LICENSE THEN empty_fields(dt, DRIVING_LICENSE_FIELDS)
  ELSE empty_fields(dt, RESIDENCE_CARD_FIELDS)

_empty_result(dt) ==
  IF dt = DOC_RESIDENCE_CARD THEN empty_fields(dt, RESIDENCE_CARD_FIELDS)
  ELSE IF dt = DOC_MYNUMBER_CARD THEN empty_fields(dt, MYNUMBER_CARD_FIELDS)
  ELSE IF dt = DOC_DRIVING_LICENSE THEN empty_fields(dt, DRIVING_LICENSE_FIELDS)
  ELSE [document_type |-> dt]

\* Python truthiness of an Optional[str] argument: None and "" are falsy
Truthy(opt) == opt # None /\ opt[1] # ""

\* a mutant of extract: the empty text defaults to MYNUMBER_CARD
extract_default_mynumber(raw, dt_arg) ==
  IF raw = <<>>
  THEN _empty_result(IF Truthy(dt_arg) THEN dt_arg[1] ELSE DOC_MYNUMBER_CARD)
  ELSE With(IF ~Truthy(dt_arg) THEN detect_document_type(raw) ELSE dt_arg[1], LAMBDA dt :
         IF dt = DOC_RESIDENCE_CARD THEN extract_residence_card(raw)
         ELSE IF dt = DOC_MYNUMBER_CARD THEN extract_mynumber_card(raw)
         ELSE IF dt = DOC_DRIVING_LICENSE THEN extract_driving_license(raw)
         ELSE _empty_result(dt))

\* a mutant of extract: without a type the Residence Card pipeline runs and
\* the classifier is not asked
extract_no_autodetect(raw, dt_arg) ==
  IF raw = <<>>
  THEN _empty_result(IF Truthy(dt_arg) THEN dt_arg[1] ELSE DOC_RESIDENCE_CARD)
  ELSE With(IF ~Truthy(dt_arg) THEN DOC_RESIDENCE_CARD ELSE dt_arg[1], LAMBDA dt :
         IF dt = DOC_RESIDENCE_CARD THEN extract_residence_card(raw)
         ELSE IF dt = DOC_MYNUMBER_CARD THEN extract_mynumber_card(raw)
         ELSE IF dt = DOC_DRIVING_LICENSE THEN extract_driving_license(raw)
         ELSE _empty_result(dt))

extract(raw, dt_arg) ==
  IF raw = <<>>
  THEN _empty_result(IF Truthy(dt_arg) THEN dt_arg[1] ELSE DOC_RESIDENCE_CARD)
  ELSE With(IF ~Truthy(dt_arg) THEN detect_document_type(raw) ELSE dt_arg[1], LAMBDA dt :
         IF dt = DOC_RESIDENCE_CARD THEN extract_residence_card(raw)
         ELSE IF dt = DOC_MYNUMBER_CARD THEN extract_mynumber_card(raw)
         ELSE IF dt = DOC_DRIVING_LICENSE THEN extract_driving_license(raw)
         ELSE _empty_result(dt))

\* ------------------------------------------------------------------------
\* Inputs
\* ------------------------------------------------------------------------

\* a local name of the handler before anything is assigned to it; once a
\* value v is assigned the name holds <<v>>
Unbound == <<>>

\* no request is being handled
NoRequest == files = <<>> /\ results = <<>> /\ extracted_data = Unbound

\* no extractor is shared between calls
NoCalls == instance = None /\ calls = <<>>

RECURSIVE SeqsUpTo(_, _)
SeqsUpTo(S, n) ==
  IF n = 0 THEN {<<>>}
  ELSE LET P == SeqsUpTo(S, n - 1)
       IN P \cup {Append(p, c) : p \in {q \in P : Len(q) = n - 1}, c \in S}

RECURSIVE Flatten(_)
Flatten(ws) == IF ws = <<>> THEN <<>> ELSE Head(ws) \o Flatten(Tail(ws))

\* texts of at most n words of W, concatenated
Texts(W, n) == {Flatten(ws) : ws \in SeqsUpTo(W, n)}

MaxNormLen == 5

\* space, tab, newline, U+3000 ideographic space, "a", U+FF21 full-width A
NormAlphabet == {32, 9, 10, 12288, 97, 65313}

\* ------------------------------------------------------------------------
\* normalize_text called on a text, and again on its own output
\* ------------------------------------------------------------------------

InitNorm ==
  /\ raw_text \in SeqsUpTo(NormAlphabet, MaxNormLen)
  /\ document_type = None
  /\ pc = "start"
  /\ ret = None
  /\ NoRequest /\ NoCalls

Normalize ==
  /\ pc = "start"
  /\ ret' = normalize_text(raw_text)
  /\ pc' = "normalized"
  /\ UNCHANGED <<raw_text, document_type, handler_vars, shared_vars>>

Renormalize ==
  /\ pc = "normalized"
  /\ ret' = normalize_text(ret)
  /\ pc' = "renormalized"
  /\ UNCHANGED <<raw_text, document_type, handler_vars, shared_vars>>

NextNorm == Normalize \/ Renormalize

SpecNorm == InitNorm /\ [][NextNorm]_vars

\* C3: normalize_text is idempotent, and its output has no run of two
\* spaces/tabs, no run of two newlines, no leading or trailing whitespace;
\* the empty input yields the empty string.
NormalizeIdempotent ==
  /\ pc = "renormalized" => ret = normalize_text(raw_text)
  /\ pc = "normalized" =>
       /\ \A i \in 1..(Len(ret) - 1) :
            /\ ~(ret[i] \in {32, 9} /\ ret[i + 1] \in {32, 9})
            /\ ~(ret[i] = 10 /\ ret[i + 1] = 10)
       /\ ret # <<>> => ret[1] \notin Space /\ ret[Len(ret)] \notin Space
       /\ raw_text = <<>> => ret = <<>>

\* a text with a folded ideographic space beside a space and a doubled
\* newline has been normalized twice
NormalizeWitness ==
  /\ pc = "renormalized"
  /\ raw_text = <<97, 32, 12288, 10, 10>>
  /\ ret = <<97>>

\* ------------------------------------------------------------------------
\* detect_document_type called on a text, and on the normalized text
\* ------------------------------------------------------------------------

MaxDetectWords == 3

\* AB12345678CD, the same in full-width glyphs, kojin bangou kaado,
\* mainanbaa, futsuu, chuugata, oogata, Nationality
DetectWords ==
  {<<65, 66, 49, 50, 51, 52, 53, 54, 55, 56, 67, 68>>, <<65313, 65314, 65297, 65298, 65299, 65300, 65301, 65302, 65303, 65304, 65315, 65316>>, <<20491, 20154, 30058, 21495, 12459, 12540, 12489>>, <<12510, 12452, 12490, 12531, 12496, 12540>>,
   <<26222, 36890>>, <<20013, 22411>>, <<22823, 22411>>, <<78, 97, 116, 105, 111, 110, 97, 108, 105, 116, 121>>}

InitDetect ==
  /\ raw_text \in Texts(DetectWords, MaxDetectWords)
  /\ document_type = None
  /\ pc = "start"
  /\ ret = None
  /\ NoRequest /\ NoCalls

Detect ==
  /\ pc = "start"
  /\ ret' = detect_document_type(raw_text)
  /\ pc' = "detected"
  /\ UNCHANGED <<raw_text, document_type, handler_vars, shared_vars>>

DetectNormalized ==
  /\ pc = "detected"
  /\ ret' = <<ret, detect_document_type(normalize_text(raw_text))>>
  /\ pc' = "detected_normalized"
  /\ UNCHANGED <<raw_text, document_type, handler_vars, shared_vars>>

NextDetect == Detect \/ DetectNormalized

SpecDetect == InitDetect /\ [][NextDetect]_vars

KnownTypes == {DOC_RESIDENCE_CARD, DOC_MYNUMBER_CARD, DOC_DRIVING_LICENSE}

\* the keywords of a list that occur in the text (as written, or in any
\* letter case when ci)
KeywordHits(kws, raw, ci) ==
  With(str_lower(raw), LAMBDA lowered :
    {i \in 1..Len(kws) :
       \/ Contains(raw, kws[i])
       \/ (ci /\ Contains(lowered, str_lower(kws[i])))})

\* two uppercase letters, eight digits, two uppercase letters at position i
CardNumberAt(s, i) ==
  /\ i + 11 <= Len(s)
  /\ \A j \in {0, 1, 10, 11} : s[i + j] \in 65..90
  /\ \A j \in 2..9 : s[i + j] \in 48..57

HasCardNumber(s) == \E i \in 1..Len(s) : CardNumberAt(s, i)

\* +2 per matched keyword of the type, +5 for the residence-card number shape
ExpectedScore(T, raw) ==
  CASE T = DOC_RESIDENCE_CARD ->
         2 * Cardinality(KeywordHits(residence_keywords, raw, TRUE))
           + (IF re_search(residence_card_pattern, raw, NoFlags)[1] THEN 5 ELSE 0)
    [] T = DOC_MYNUMBER_CARD -> 2 * Cardinality(KeywordHits(mynumber_keywords, raw, TRUE))
    [] T = DOC_DRIVING_LICENSE -> 2 * Cardinality(KeywordHits(license_keywords, raw, FALSE))

Position(T) == CHOOSE i \in 1..Len(DocTypeOrder) : DocTypeOrder[i] = T

\* C4: for a non-empty text detect_document_type returns a type of maximal
\* score, the first such type in the order RESIDENCE_CARD, MYNUMBER_CARD,
\* DRIVING_LICENSE; a text with no signal, like the empty text, classifies
\* as RESIDENCE_CARD.
DetectReturnsFirstMaximum ==
  pc = "detected" =>
    With([T \in KnownTypes |-> ExpectedScore(T, raw_text)], LAMBDA expected :
      /\ ret \in KnownTypes
      /\ \A T \in KnownTypes :
           /\ expected[T] <= expected[ret]
           /\ Position(T) < Position(ret) => expected[T] < expected[ret]
      /\ (\A T \in KnownTypes : expected[T] = 0) => ret = DOC_RESIDENCE_CARD
      /\ raw_text = <<>> => ret = DOC_RESIDENCE_CARD)

\* a My Number keyword and a Driving License keyword tie at 2 and the
\* earlier type, MYNUMBER_CARD, is returned
DetectTieWitness ==
  /\ pc = "detected"
  /\ raw_text = <<12510, 12452, 12490, 12531, 12496, 12540, 26222, 36890>>
  /\ ret = DOC_MYNUMBER_CARD

\* the precondition of C5: the card-number shape and no Residence Card keyword
ShapeWithoutResidenceKeyword ==
  /\ HasCardNumber(raw_text)
  /\ KeywordHits(residence_keywords, raw_text, TRUE) = {}

\* C5 as stated: a text with the card-number shape and no Residence Card
\* keyword is classified RESIDENCE_CARD, whatever other keywords it holds.
ShapeAlwaysResidence ==
  (pc = "detected" /\ ShapeWithoutResidenceKeyword) => ret = DOC_RESIDENCE_CARD

\* C5 as amended: such a text is classified RESIDENCE_CARD exactly when at
\* most two My Number keywords and at most two Driving License keywords
\* match (each other score is at most 4 < 5); with three matched keywords of
\* one of those types (6 > 5) that type is returned.
ShapeResidenceUpToTwoKeywords ==
  (pc = "detected" /\ ShapeWithoutResidenceKeyword) =>
    (ret = DOC_RESIDENCE_CARD
       <=> /\ Cardinality(KeywordHits(mynumber_keywords, raw_text, TRUE)) <= 2
           /\ Cardinality(KeywordHits(license_keywords, raw_text, FALSE)) <= 2)

\* a card number beside two Driving License keywords is a Residence Card
ShapeWitness ==
  /\ pc = "detected"
  /\ raw_text = <<26222, 36890, 65, 66, 49, 50, 51, 52, 53, 54, 55, 56, 67, 68, 20013, 22411>>
  /\ ret = DOC_RESIDENCE_CARD

\* C6: classification is performed on normalized text:
\* detect_document_type(t) = detect_document_type(normalize_text(t)).
DetectOnNormalizedText ==
  pc = "detected_normalized" => ret[1] = ret[2]

\* ------------------------------------------------------------------------
\* extract called on a text with a document type argument, and again with
\* the type the classifier gives
\* ------------------------------------------------------------------------

MaxExtractWords == 3

\* a space, a newline, otoko, seibetsu, futsuu, kojin bangou, m
ExtractWords ==
  {<<32>>, <<10>>, <<30007>>, <<24615, 21029>>, <<26222, 36890>>, <<20491, 20154, 30058, 21495>>, <<109>>}

\* document_type arguments: omitted, the three known types, an unknown type,
\* the empty string
DocTypeArgs ==
  {None, Some(DOC_RESIDENCE_CARD), Some(DOC_MYNUMBER_CARD), Some(DOC_DRIVING_LICENSE),
   Some("PASSPORT"), Some("")}

InitExtract ==
  /\ raw_text \in Texts(ExtractWords, MaxExtractWords)
  /\ document_type \in DocTypeArgs
  /\ pc = "start"
  /\ ret = None
  /\ NoRequest /\ NoCalls

Extract ==
  /\ pc = "start"
  /\ ret' = extract(raw_text, document_type)
  /\ pc' = "extracted"
  /\ UNCHANGED <<raw_text, document_type, handler_vars, shared_vars>>

ExtractDetected ==
  /\ pc = "extracted"
  /\ document_type = None
  /\ ret' = <<ret, extract(raw_text, Some(detect_document_type(raw_text)))>>
  /\ pc' = "extracted_detected"
  /\ UNCHANGED <<raw_text, document_type, handler_vars, shared_vars>>

NextExtract == Extract \/ ExtractDetected

SpecExtract == InitExtract /\ [][NextExtract]_vars

FieldsOf(T) ==
  CASE T = DOC_RESIDENCE_CARD -> RESIDENCE_CARD_FIELDS
    [] T = DOC_MYNUMBER_CARD -> MYNUMBER_CARD_FIELDS
    [] T = DOC_DRIVING_LICENSE -> DRIVING_LICENSE_FIELDS

KnownTypeSupplied == document_type # None /\ document_type[1] \in KnownTypes

\* C1: for a known type T and every text, extract(text, T) has exactly the
\* keys document_type and T's declared fields, with document_type = T; the
\* pipeline's key set is the key set of _empty_result(T).
SchemaCompleteness ==
  (pc = "extracted" /\ KnownTypeSupplied) =>
    /\ DOMAIN ret = {"document_type"} \cup Range(FieldsOf(document_type[1]))
    /\ DOMAIN ret = DOMAIN _empty_result(document_type[1])
    /\ ret.document_type = document_type[1]

\* a non-empty text went through the Residence Card pipeline and a field
\* was found
SchemaWitness ==
  /\ pc = "extracted"
  /\ document_type = Some(DOC_RESIDENCE_CARD)
  /\ raw_text = <<24615, 21029, 32, 30007>>
  /\ ret.gender = Some(MALE)
  /\ ret.region = None

\* C7: extract(t) without a type returns the record of
\* extract(t, detect_document_type(t)), and a supplied known type is the
\* type of the result.
ExtractUsesClassifier ==
  /\ pc = "extracted_detected" => ret[1] = ret[2]
  /\ (pc = "extracted" /\ KnownTypeSupplied) => ret.document_type = document_type[1]

\* a text the classifier takes for a Driving License was extracted without a
\* type and with the detected type
ClassifierWitness ==
  /\ pc = "extracted_detected"
  /\ raw_text = <<26222, 36890, 32, 30007>>
  /\ ret[1].document_type = DOC_DRIVING_LICENSE
  /\ ret[2].document_type = DOC_DRIVING_LICENSE

UnknownTypeSupplied == document_type # None /\ document_type[1] \notin KnownTypes

\* C8 as stated: for every supplied type that is not a known type, the
\* result's only key is document_type, holding the supplied value.
UnknownTypeMinimal ==
  (pc = "extracted" /\ UnknownTypeSupplied) => ret = [document_type |-> document_type[1]]

\* C8 as amended: that holds for every supplied non-empty type that is not
\* a known type; the empty string is taken as no type supplied.
UnknownNonEmptyTypeMinimal ==
  /\ (pc = "extracted" /\ UnknownTypeSupplied /\ document_type[1] # "") =>
       ret = [document_type |-> document_type[1]]
  /\ (pc = "extracted" /\ document_type = Some("")) => ret = extract(raw_text, None)

\* a non-empty text was extracted with the unknown type PASSPORT
UnknownTypeWitness ==
  /\ pc = "extracted"
  /\ document_type = Some("PASSPORT")
  /\ raw_text = <<24615, 21029, 32, 30007>>
  /\ DOMAIN ret = {"document_type"}

\* ------------------------------------------------------------------------
\* extract called on an empty or whitespace-only text
\* ------------------------------------------------------------------------

MaxBlankLen == 3

\* space, tab, newline, carriage return, U+3000 ideographic space
BlankAlphabet == {32, 9, 10, 13, 12288}

InitBlank ==
  /\ raw_text \in SeqsUpTo(BlankAlphabet, MaxBlankLen)
  /\ document_type \in
       {None, Some(DOC_RESIDENCE_CARD), Some(DOC_MYNUMBER_CARD), Some(DOC_DRIVING_LICENSE)}
  /\ pc = "start"
  /\ ret = None
  /\ NoRequest /\ NoCalls

NextBlank == Extract

SpecBlank == InitBlank /\ [][NextBlank]_vars

\* C2: for an empty or whitespace-only text and a known or omitted type,
\* extract returns the record of that type (RESIDENCE_CARD when omitted)
\* with every schema field None.
BlankTextAllAbsent ==
  pc = "extracted" =>
    LET T == IF document_type = None THEN DOC_RESIDENCE_CARD ELSE document_type[1]
    IN /\ ret.document_type = T
       /\ DOMAIN ret = {"document_type"} \cup Range(FieldsOf(T))
       /\ \A k \in DOMAIN ret \ {"document_type"} : ret[k] = None

\* a whitespace-only, non-empty text went through the My Number pipeline
BlankWitness ==
  /\ pc = "extracted"
  /\ raw_text = <<32, 12288, 10>>
  /\ document_type = Some(DOC_MYNUMBER_CARD)
  /\ ret.my_number = None

\* ------------------------------------------------------------------------
\* extract called for the two pipelines that have a gender field
\* ------------------------------------------------------------------------

MaxGenderWords == 3

\* otoko, onna, a space, seibetsu, SEX, m, yama (a kanji that is no token)
GenderWords ==
  {<<30007>>, <<22899>>, <<32>>, <<24615, 21029>>, <<83, 69, 88>>, <<109>>, <<23665>>}

InitGender ==
  /\ raw_text \in Texts(GenderWords, MaxGenderWords)
  /\ document_type \in {Some(DOC_RESIDENCE_CARD), Some(DOC_MYNUMBER_CARD)}
  /\ pc = "start"
  /\ ret = None
  /\ NoRequest /\ NoCalls

NextGender == Extract

SpecGender == InitGender /\ [][NextGender]_vars

Otoko == <<30007>>[1]
Onna == <<22899>>[1]

\* a gender label (seibetsu, SEX, GENDER in any letter case) ends right
\* before position i of s
LabelEndsBefore(s, i) ==
  \E label \in {<<24615, 21029>>, <<83, 69, 88>>, <<71, 69, 78, 68, 69, 82>>} :
    /\ i - Len(label) >= 1
    /\ str_upper(SubSeq(s, i - Len(label), i - 1)) = label

\* position j of s follows a gender label with only whitespace and colons
\* between
AfterLabel(s, j) ==
  \E i \in 1..j :
    /\ LabelEndsBefore(s, i)
    /\ \A k \in i..(j - 1) : s[k] \in Space \cup {58}

\* a label is followed by a Latin gender token (M or F, in either case)
LabelledLatin(s) == \E j \in 1..Len(s) : upper(s[j]) \in {77, 70} /\ AfterLabel(s, j)

\* an otoko follows a label
LabelledOtoko(s) == \E j \in 1..Len(s) : s[j] = Otoko /\ AfterLabel(s, j)

\* an otoko stands alone between whitespace or the ends of the text
StandaloneOtoko(s) ==
  \E j \in 1..Len(s) :
    /\ s[j] = Otoko
    /\ j = 1 \/ s[j - 1] \in Space
    /\ j = Len(s) \/ s[j + 1] \in Space

OtokoWithoutOnna(s) == Contains(s, <<Otoko>>) /\ ~Contains(s, <<Onna>>)

GenderCanonical ==
  pc = "extracted" => ret.gender \in {None, Some(MALE), Some(FEMALE)}

\* ------------------------------------------------------------------------
\* status_of_residence: the lexicon scan of _extract_residence_status
\* ------------------------------------------------------------------------

MaxStatusWords == 3

\* tokubetsu eijuusha, eijuusha, tokutei ginou 1 gou (full-width 1), ginou,
\* zairyuu shikaku (the label), yama (a kanji that is no entry), a space
StatusWords ==
  {<<29305, 21029, 27704, 20303, 32773>>, <<27704, 20303, 32773>>, <<29305, 23450, 25216, 33021, 65297, 21495>>, <<25216, 33021>>, <<22312, 30041, 36039, 26684>>, <<23665>>, <<32>>}

InitStatus ==
  /\ raw_text \in Texts(StatusWords, MaxStatusWords)
  /\ document_type = Some(DOC_RESIDENCE_CARD)
  /\ pc = "start"
  /\ ret = None
  /\ NoRequest /\ NoCalls

NextStatus == Extract

SpecStatus == InitStatus /\ [][NextStatus]_vars

\* the entries of a word list that occur in the text
Occurring(words, s) == {k \in 1..Len(words) : Contains(s, words[k])}

\* the entry words[k] occurs in s and every other occurring entry is a
\* substring of it
OnlyEntry(words, k, s) ==
  /\ k \in Occurring(words, s)
  /\ \A j \in Occurring(words, s) : Contains(words[k], words[j])

\* C11: if the normalized text contains the lexicon entry S and no entry
\* other than S and substrings of S, status_of_residence is S; a text whose
\* only status is tokubetsu eijuusha resolves to tokubetsu eijuusha.
StatusOnlyEntryWins ==
  pc = "extracted" =>
    \A k \in 1..Len(RESIDENCE_STATUS_LIST) :
      OnlyEntry(RESIDENCE_STATUS_LIST, k, normalize_text(raw_text)) =>
        ret.status_of_residence = Some(RESIDENCE_STATUS_LIST[k])

\* ------------------------------------------------------------------------
\* license_categories: the vocabulary scan of _extract_license_categories
\* ------------------------------------------------------------------------

MaxCategoryWords == 3

\* futsuu, oogata, jun-chuugata (which contains chuugata), gentsuki,
\* yama (a kanji of no category), a newline
CategoryWords ==
  {<<26222, 36890>>, <<22823, 22411>>, <<28310, 20013, 22411>>, <<21407, 20184>>, <<23665>>, <<10>>}

InitCategories ==
  /\ raw_text \in Texts(CategoryWords, MaxCategoryWords)
  /\ document_type = Some(DOC_DRIVING_LICENSE)
  /\ pc = "start"
  /\ ret = None
  /\ NoRequest /\ NoCalls

NextCategories == Extract

SpecCategories == InitCategories /\ [][NextCategories]_vars

\* the i-th smallest element of a set of numbers
Nth(K, i) == CHOOSE k \in K : Cardinality({j \in K : j < k}) = i - 1

\* the entries of words at the indices K, in the order of words
InOrder(words, K) == [i \in 1..Cardinality(K) |-> words[Nth(K, i)]]

\* C12: license_categories is absent exactly when no vocabulary token occurs
\* in the normalized text, and otherwise is the list of exactly the
\* occurring tokens, each once, in the vocabulary's declaration order.
CategoriesInDeclarationOrder ==
  pc = "extracted" =>
    LET occurring == Occurring(category_list, normalize_text(raw_text))
    IN ret.license_categories =
         IF occurring = {} THEN None ELSE Some(InOrder(category_list, occurring))

\* futsuu before oogata in the text: oogata comes first in the result, and
\* jun-chuugata brings chuugata with it
CategoriesWitness ==
  /\ pc = "extracted"
  /\ raw_text = <<26222, 36890, 22823, 22411, 28310, 20013, 22411>>
  /\ ret.license_categories = Some(<<<<22823, 22411>>, <<20013, 22411>>, <<28310, 20013, 22411>>, <<26222, 36890>>>>)

\* ------------------------------------------------------------------------
\* my_number: the labelled forms and the bare fallback of _extract_mynumber
\* ------------------------------------------------------------------------

MaxMyNumberWords == 3

\* kojin bangou (a label), twelve digits, twelve digits in 4-4-4 groups,
\* another twelve digits followed by a newline, one digit, a space, a colon
MyNumberWords ==
  {<<20491, 20154, 30058, 21495>>, <<49, 49, 49, 49, 50, 50, 50, 50, 51, 51, 51, 51>>, <<49, 50, 51, 52, 32, 53, 54, 55, 56, 32, 57, 48, 49, 50>>, <<57, 57, 57, 57, 56, 56, 56, 56, 55, 55, 55, 55, 10>>, <<57>>, <<32>>, <<58>>}

InitMyNumber ==
  /\ raw_text \in Texts(MyNumberWords, MaxMyNumberWords)
  /\ document_type = Some(DOC_MYNUMBER_CARD)
  /\ pc = "start"
  /\ ret = None
  /\ NoRequest /\ NoCalls

NextMyNumber == Extract

SpecMyNumber == InitMyNumber /\ [][NextMyNumber]_vars

\* kojin bangou, mainanbaa
MyNumberLabels == {<<20491, 20154, 30058, 21495>>, <<12510, 12452, 12490, 12531, 12496, 12540>>}

\* the word w stands at position p of s
WordAt(s, p, w) == p + Len(w) - 1 <= Len(s) /\ SubSeq(s, p, p + Len(w) - 1) = w

\* n digits stand at positions i..i+n-1 of s
DigitsAt(s, i, n) == i + n - 1 <= Len(s) /\ \A j \in i..(i + n - 1) : s[j] \in Digit

\* the first position from i on that holds no character of S
SkipFrom(s, i, S) ==
  IF \E j \in i..Len(s) : s[j] \notin S
  THEN CHOOSE j \in i..Len(s) : s[j] \notin S /\ \A k \in i..(j - 1) : s[k] \in S
  ELSE Len(s) + 1

\* where the digits start after a label at position p: past whitespace and
\* colons (0 when no label stands at p)
AfterLabelAt(s, p) ==
  IF \E label \in MyNumberLabels : WordAt(s, p, label)
  THEN LET label == CHOOSE l \in MyNumberLabels : WordAt(s, p, l)
       IN SkipFrom(s, p + Len(label), Space \cup {58})
  ELSE 0

\* a label at p followed by twelve contiguous digits
ContiguousAt(s, p) == AfterLabelAt(s, p) > 0 /\ DigitsAt(s, AfterLabelAt(s, p), 12)

ContiguousValue(s, p) == SubSeq(s, AfterLabelAt(s, p), AfterLabelAt(s, p) + 11)

\* the starts of the three groups of four digits after a label at p
GroupStarts(s, p) ==
  LET d1 == AfterLabelAt(s, p)
      d2 == SkipFrom(s, d1 + 4, Space)
      d3 == SkipFrom(s, d2 + 4, Space)
  IN <<d1, d2, d3>>

\* a label at p followed by twelve digits in 4-4-4 groups, whitespace between
GroupedAt(s, p) ==
  /\ AfterLabelAt(s, p) > 0
  /\ \A g \in 1..3 : DigitsAt(s, GroupStarts(s, p)[g], 4)

GroupedValue(s, p) ==
  LET d == GroupStarts(s, p)
  IN SubSeq(s, d[1], d[1] + 3) \o SubSeq(s, d[2], d[2] + 3) \o SubSeq(s, d[3], d[3] + 3)

\* twelve digits at i that are a word of their own
BareAt(s, i) ==
  /\ DigitsAt(s, i, 12)
  /\ i = 1 \/ s[i - 1] \notin WordChar
  /\ i + 12 > Len(s) \/ s[i + 12] \notin WordChar

\* the my_number the claim gives for the normalized text s
LabelledNumberFirst(s) ==
  LET contiguous == {p \in 1..Len(s) : ContiguousAt(s, p)}
      grouped == {p \in 1..Len(s) : GroupedAt(s, p)}
      bare == {i \in 1..Len(s) : BareAt(s, i)}
  IN IF contiguous # {} THEN Some(ContiguousValue(s, SetMin(contiguous)))
     ELSE IF grouped # {} THEN Some(GroupedValue(s, SetMin(grouped)))
     ELSE IF bare # {} THEN Some(SubSeq(s, SetMin(bare), SetMin(bare) + 11))
     ELSE None

\* C13: when a label is followed by twelve digits, contiguous or in 4-4-4
\* groups, my_number is that labelled number without its whitespace (the
\* first contiguous one, else the first grouped one), also when another bare
\* number stands elsewhere; the first bare 12-digit word is used only when
\* there is no labelled form; a present my_number is exactly twelve digits.
MyNumberLabelledFirst ==
  pc = "extracted" =>
    /\ ret.my_number = LabelledNumberFirst(normalize_text(raw_text))
    /\ ret.my_number # None =>
         Len(ret.my_number[1]) = 12 /\ \A j \in 1..12 : ret.my_number[1][j] \in Digit

\* a bare number on the first line, the labelled 4-4-4 number after it
MyNumberWitness ==
  /\ pc = "extracted"
  /\ raw_text = <<57, 57, 57, 57, 56, 56, 56, 56, 55, 55, 55, 55, 10, 20491, 20154, 30058, 21495, 49, 50, 51, 52, 32, 53, 54, 55, 56, 32, 57, 48, 49, 50>>
  /\ ret.my_number = Some(<<49, 50, 51, 52, 53, 54, 55, 56, 57, 48, 49, 50>>)

\* ------------------------------------------------------------------------
\* full_name / full_name_romaji: the filter and the pattern order of
\* _extract_romaji_name
\* ------------------------------------------------------------------------

MaxRomajiWords == 3

\* NAME and a line break, a two-letter line, a given name, a full name,
\* a denylisted label, shimei (a label)
RomajiWords ==
  {<<78, 65, 77, 69, 10>>, <<65, 66, 10>>, <<84, 65, 82, 79>>, <<89, 65, 77, 65, 68, 65, 32, 84, 65, 82, 79>>, <<83, 69, 88>>, <<27663, 21517>>}

InitRomaji ==
  /\ raw_text \in Texts(RomajiWords, MaxRomajiWords)
  /\ document_type \in {Some(DOC_RESIDENCE_CARD), Some(DOC_MYNUMBER_CARD)}
  /\ pc = "start"
  /\ ret = None
  /\ NoRequest /\ NoCalls

NextRomaji == Extract

SpecRomaji == InitRomaji /\ [][NextRomaji]_vars

\* the romaji name field of a result
RomajiField(r) ==
  IF r.document_type = DOC_RESIDENCE_CARD THEN r.full_name ELSE r.full_name_romaji

RomajiDenylist ==
  {<<82, 69, 83, 73, 68, 69, 78, 67, 69>>, <<67, 65, 82, 68>>, <<74, 65, 80, 65, 78>>, <<73, 77, 77, 73, 71, 82, 65, 84, 73, 79, 78>>, <<68, 65, 84, 69>>, <<66, 73, 82, 84, 72>>,
   <<78, 65, 84, 73, 79, 78, 65, 76, 73, 84, 89>>, <<82, 69, 71, 73, 79, 78>>, <<83, 84, 65, 84, 85, 83>>, <<80, 69, 82, 73, 79, 68>>, <<83, 84, 65, 89>>, <<69, 88, 80, 73, 82, 89>>,
   <<87, 79, 82, 75>>, <<82, 69, 83, 84, 82, 73, 67, 84, 73, 79, 78>>, <<78, 85, 77, 66, 69, 82>>, <<83, 69, 88>>}

\* at least 4 characters, an uppercase letter first, only uppercase letters,
\* whitespace, hyphens and periods, no denylisted token inside
RomajiValid(name) ==
  /\ Len(name) >= 4
  /\ name[1] \in UpperAZ
  /\ \A i \in 1..Len(name) : name[i] \in UpperAZ \cup Space \cup {45, 46}
  /\ \A w \in RomajiDenylist : \A p \in 1..Len(name) : ~WordAt(name, p, w)

RomajiPatterns == <<romaji_own_line, romaji_labelled, romaji_standalone>>

\* the trimmed capture of pattern i in text, None when the pattern does not match
RomajiCapture(i, text) ==
  LET m == re_search(RomajiPatterns[i], text, MULTILINE)
  IN IF m[1] THEN Some(strip(group1(m, text))) ELSE None

RomajiPasses(i, text) ==
  RomajiCapture(i, text) # None /\ RomajiValid(RomajiCapture(i, text)[1])

\* C15: a present romaji name passes the filter (length, alphabet, denylist);
\* the value is the capture of the first pattern whose capture passes, and
\* the field is absent only when no pattern's capture passes.
RomajiNameFiltered ==
  pc = "extracted" =>
    LET text == normalize_text(raw_text)
        v == RomajiField(ret)
        passing == {i \in 1..3 : RomajiPasses(i, text)}
    IN /\ v # None => RomajiValid(v[1])
       /\ IF passing = {} THEN v = None
          ELSE v = RomajiCapture(CHOOSE i \in passing : \A j \in passing : i <= j, text)

\* the first two patterns capture the two-letter line, which fails the
\* filter, and the third pattern's capture is returned
RomajiWitness ==
  /\ pc = "extracted"
  /\ raw_text = <<78, 65, 77, 69, 10, 65, 66, 10, 84, 65, 82, 79>>
  /\ document_type = Some(DOC_RESIDENCE_CARD)
  /\ RomajiCapture(1, normalize_text(raw_text)) = Some(<<65, 66>>)
  /\ ret.full_name = Some(<<78, 65, 77, 69, 10, 65, 66, 10, 84, 65, 82, 79>>)

\* ------------------------------------------------------------------------
\* work_restriction: the canonical phrases of _extract_work_restriction
\* ------------------------------------------------------------------------

MaxRestrictionWords == 3

\* shiteisho kisai kikan de no (the prefix of the fourth phrase), zairyuu
\* shikaku ni motozuku shuurou katsudou nomi ka, shuurou seigen nashi,
\* seigen nashi, shuurou fuka, shikakugai katsudou kyoka, the rest of the
\* fifth phrase, yama (a kanji of no phrase)
RestrictionWords ==
  {<<25351, 23450, 26360, 35352, 36617, 27231, 38306, 12391, 12398>>, <<22312, 30041, 36039, 26684, 12395, 22522, 12389, 12367, 23601, 21172, 27963, 21205, 12398, 12415, 21487>>, <<23601, 21172, 21046, 38480, 12394, 12375>>, <<21046, 38480, 12394, 12375>>,
   <<23601, 21172, 19981, 21487>>, <<36039, 26684, 22806, 27963, 21205, 35377, 21487>>, <<26360, 12395, 35352, 36617, 12373, 12428, 12383, 31684, 22258, 20869, 12398, 23601, 21172, 21487>>, <<23665>>}

InitRestriction ==
  /\ raw_text \in Texts(RestrictionWords, MaxRestrictionWords)
  /\ document_type = Some(DOC_RESIDENCE_CARD)
  /\ pc = "start"
  /\ ret = None
  /\ NoRequest /\ NoCalls

NextRestriction == Extract

SpecRestriction == InitRestriction /\ [][NextRestriction]_vars

\* C17: if the normalized text contains the canonical phrase P and no
\* canonical phrase other than P and substrings of P, work_restriction is P
\* (the phrase starting with shiteisho kisai kikan de no resolves to itself,
\* not to the shorter phrase inside it); the fallbacks are consulted only
\* when no canonical phrase occurs.
RestrictionOnlyPhraseWins ==
  pc = "extracted" =>
    LET text == normalize_text(raw_text)
    IN /\ \A k \in 1..Len(restriction_statuses) :
            OnlyEntry(restriction_statuses, k, text) =>
              ret.work_restriction = Some(restriction_statuses[k])
       /\ Occurring(restriction_statuses, text) # {} =>
            \E k \in 1..Len(restriction_statuses) :
              ret.work_restriction = Some(restriction_statuses[k])

\* ------------------------------------------------------------------------
\* date fields: what _extract_date_field returns
\* ------------------------------------------------------------------------

MaxDateWords == 3

\* seinengappi and yuukou kigen (labels), a year, a month and a day, an era
\* year, a space, a line break
DateWords ==
  {<<29983, 24180, 26376, 26085>>, <<26377, 21177, 26399, 38480>>, <<49, 57, 57, 48, 24180>>, <<49, 26376, 50, 26085>>, <<20196, 21644, 54, 24180>>, <<32>>, <<10>>}

InitDates ==
  /\ raw_text \in Texts(DateWords, MaxDateWords)
  /\ document_type \in {Some(DOC_RESIDENCE_CARD), Some(DOC_MYNUMBER_CARD)}
  /\ pc = "start"
  /\ ret = None
  /\ NoRequest /\ NoCalls

NextDates == Extract

SpecDates == InitDates /\ [][NextDates]_vars

\* the values of the date fields that are present in a result
DateValues(r) ==
  {r[f][1] : f \in {g \in DOMAIN r \cap {"date_of_birth", "issue_date", "expiry_date",
                                        "digital_cert_expiry"} : r[g] # None}}

\* reiwa, heisei, shouwa
EraNames == {<<20196, 21644>>, <<24179, 25104>>, <<26157, 21644>>}

DigitRun(s, a, b) == a <= b /\ \A j \in a..b : s[j] \in Digit

\* s[from..] is Y nen M gatsu D nichi (nen is 24180, gatsu 26376, nichi
\* 26085) with ymin..ymax digits of Y and one or
\* two digits of M and of D
YearMonthDay(s, from, ymin, ymax) ==
  /\ Len(s) > from
  /\ s[Len(s)] = 26085
  /\ \E a, b \in from..Len(s) :
       /\ a < b
       /\ s[a] = 24180 /\ s[b] = 26376
       /\ DigitRun(s, from, a - 1) /\ (a - from) \in ymin..ymax
       /\ DigitRun(s, a + 1, b - 1) /\ (b - a - 1) \in 1..2
       /\ DigitRun(s, b + 1, Len(s) - 1) /\ (Len(s) - b - 1) \in 1..2

\* one of the four surface forms in full
FullDate(s) ==
  \/ YearMonthDay(s, 1, 4, 4)
  \/ \E era \in EraNames : WordAt(s, 1, era) /\ YearMonthDay(s, 3, 1, 2)

ContainsFullDate(s) ==
  \E a, b \in 1..Len(s) : a <= b /\ FullDate(SubSeq(s, a, b))

\* digits followed by nen, gatsu or nichi, or an era name
HasDateIndicator(s) ==
  \E p \in 1..Len(s) :
    \/ p > 1 /\ s[p] \in {24180, 26376, 26085} /\ s[p - 1] \in Digit
    \/ \E era \in EraNames : WordAt(s, p, era)

IsSubstring(v, s) == \E p \in 1..Len(s) : WordAt(s, p, v)

\* the labels of the date fields
DateLabels ==
  {<<29983, 24180, 26376, 26085>>, <<68, 65, 84, 69, 32, 79, 70, 32, 66, 73, 82, 84, 72>>, <<20132, 20184, 24180, 26376, 26085>>, <<68, 65, 84, 69, 32, 79, 70, 32, 73, 83, 83, 85, 69>>, <<26377, 21177, 26399, 38480>>,
   <<68, 65, 84, 69, 32, 79, 70, 32, 69, 88, 80, 73, 82, 89>>, <<12414, 12391, 26377, 21177>>, <<30330, 34892>>, <<32626, 21517, 29992, 38651, 23376, 35388, 26126, 26360>>, <<38651, 23376, 35388, 26126, 26360, 12398, 26377, 21177, 26399, 38480>>, <<20132, 20184>>}

\* v is trimmed text of one line that starts right after a label of s (past
\* whitespace and colons)
FollowsLabel(v, s) ==
  /\ v # <<>>
  /\ v[1] \notin Space /\ v[Len(v)] \notin Space
  /\ \A i \in 1..Len(v) : v[i] # 10
  /\ \E label \in DateLabels : \E p \in 1..Len(s) :
       /\ WordAt(s, p, label)
       /\ WordAt(s, SkipFrom(s, p + Len(label), Space \cup {58}), v)

\* C16 as stated: a present date field is a literal substring of the
\* normalized text that has one of the four surface forms in full; partial
\* text such as a bare year is never returned.
DatesFullForm ==
  pc = "extracted" =>
    \A v \in DateValues(ret) :
      IsSubstring(v, normalize_text(raw_text)) /\ FullDate(v)

\* C16 amended: a present date field is a literal substring of the
\* normalized text that either has one of the four surface forms in full, or
\* is the trimmed one-line text following a date label that contains a date
\* indicator (digits followed by nen, gatsu or nichi, or an era name) and no
\* full-form date.
DatesFullFormOrIndicated ==
  pc = "extracted" =>
    \A v \in DateValues(ret) :
      /\ IsSubstring(v, normalize_text(raw_text))
      /\ \/ FullDate(v)
         \/ /\ FollowsLabel(v, normalize_text(raw_text))
            /\ HasDateIndicator(v)
            /\ ~ContainsFullDate(v)

\* a bare year after the label is returned as the date of birth
DatesWitness ==
  /\ pc = "extracted"
  /\ raw_text = <<29983, 24180, 26376, 26085, 49, 57, 57, 48, 24180>>
  /\ ret.date_of_birth = Some(<<49, 57, 57, 48, 24180>>)

\* ------------------------------------------------------------------------
\* address: what the three address extractors return
\* ------------------------------------------------------------------------

MaxAddressWords == 3

\* juusho (the label), Toukyou-to Shinjuku-ku, a line break and
\* Nishi-Shinjuku, a card number, a space, a line break
AddressWords ==
  {<<20303, 25152>>, <<26481, 20140, 37117, 26032, 23487, 21306>>, <<10, 35199, 26032, 23487>>, <<65, 66, 49, 50, 51, 52, 53, 54, 55, 56, 67, 68>>, <<32>>, <<10>>}

InitAddress ==
  /\ raw_text \in Texts(AddressWords, MaxAddressWords)
  /\ document_type \in {Some(t) : t \in KnownTypes}
  /\ pc = "start"
  /\ ret = None
  /\ NoRequest /\ NoCalls

NextAddress == Extract

SpecAddress == InitAddress /\ [][NextAddress]_vars

\* the characters of s that are no whitespace
NonWs(s) == SelectSeq(s, LAMBDA c : c \notin Space)

\* the position in s of its k-th character that is no whitespace
NthNonWs(s, k) ==
  CHOOSE i \in 1..Len(s) :
    s[i] \notin Space /\ Cardinality({j \in 1..i : s[j] \notin Space}) = k

\* whitespace stands between the k-th and the next non-whitespace character
GapAfter(s, k) == NthNonWs(s, k + 1) > NthNonWs(s, k) + 1

\* v is c with every run of whitespace replaced by one space, and nothing
\* else replaced or removed
CollapsesTo(c, v) ==
  /\ NonWs(c) = NonWs(v)
  /\ \A i \in 1..Len(v) :
       v[i] \in Space => v[i] = 32 /\ 1 < i /\ i < Len(v) /\ v[i + 1] \notin Space
  /\ \A k \in 1..(Len(NonWs(v)) - 1) : GapAfter(c, k) <=> GapAfter(v, k)

\* C18 as stated: a present address is a contiguous substring of the
\* normalized text, no character replaced or removed.
AddressExactSubstring ==
  pc = "extracted" /\ ret.address # None =>
    IsSubstring(ret.address[1], normalize_text(raw_text))

\* C18 amended: a present address is a contiguous substring of the
\* normalized text in which every run of whitespace (a line break included)
\* is replaced by one space, and nothing else is replaced or removed.
AddressCollapsedSubstring ==
  pc = "extracted" /\ ret.address # None =>
    LET text == normalize_text(raw_text)
    IN \E a, b \in 1..Len(text) :
         /\ a <= b
         /\ text[a] \notin Space /\ text[b] \notin Space
         /\ CollapsesTo(SubSeq(text, a, b), ret.address[1])

\* an address that spans a line break comes back with a space in its place
AddressWitness ==
  /\ pc = "extracted"
  /\ raw_text = <<20303, 25152, 26481, 20140, 37117, 26032, 23487, 21306>> \o <<10>> \o <<35199, 26032, 23487>>
  /\ document_type = Some(DOC_MYNUMBER_CARD)
  /\ ret.address = Some(<<26481, 20140, 37117, 26032, 23487, 21306, 32, 35199, 26032, 23487>>)

\* ------------------------------------------------------------------------
\* The /extract handler of src/main.py
\* ------------------------------------------------------------------------

MaxFiles == 3

\* what the OCR read in the boxes of one image: nothing, one box with a
\* space, futsuu, kojin bangou kaado, two boxes (seibetsu and otoko)
OcrTexts ==
  {<<>>, <<<<32>>>>, <<<<26222, 36890>>>>, <<<<20491, 20154, 30058, 21495, 12459, 12540, 12489>>>>, <<<<24615, 21029>>, <<30007>>>>}

\* an uploaded file: an image that cannot be decoded, or the texts read in it
\* (the OCR itself and its processing time are outside the model)
Uploads ==
  {[img_valid |-> FALSE, text_list |-> <<>>]}
    \cup {[img_valid |-> TRUE, text_list |-> t] : t \in OcrTexts}

\* sep.join(xs)
RECURSIVE str_join(_, _)
str_join(sep, xs) ==
  IF xs = <<>> THEN <<>>
  ELSE IF Len(xs) = 1 THEN xs[1]
  ELSE xs[1] \o sep \o str_join(sep, Tail(xs))

\* "\n".join(text_list)
full_doc_text(file) == str_join(<<10>>, file.text_list)

\* the local extracted_data after the if/else on the text of one file: the
\* blank branch is an annotation (extracted_data : {}) and assigns nothing
handle_data(file, data) ==
  With(full_doc_text(file), LAMBDA text :
    IF strip(text) = <<>> THEN data
    ELSE Some(extract(text, Some(detect_document_type(text)))))

InitBatch ==
  /\ files \in SeqsUpTo(Uploads, MaxFiles) \ {<<>>}
  /\ results = <<>>
  /\ extracted_data = Unbound
  /\ pc = "handling"
  /\ ret = None
  /\ raw_text = <<>>
  /\ document_type = None
  /\ NoCalls

\* if img is None: the entry is an error entry and the loop goes on
InvalidImage ==
  /\ pc = "handling"
  /\ Len(results) < Len(files)
  /\ ~files[Len(results) + 1].img_valid
  /\ results' = Append(results, [filename |-> Len(results) + 1,
                                 error |-> "Invalid image file"])
  /\ UNCHANGED <<raw_text, document_type, pc, ret, files, extracted_data, shared_vars>>

\* one pass of the loop on a decoded image
ParseFile ==
  /\ pc = "handling"
  /\ Len(results) < Len(files)
  /\ files[Len(results) + 1].img_valid
  /\ handle_data(files[Len(results) + 1], extracted_data) # Unbound
  /\ extracted_data' = handle_data(files[Len(results) + 1], extracted_data)
  /\ results' = Append(results, [filename |-> Len(results) + 1,
                                 extracted_data |-> extracted_data'[1]])
  /\ UNCHANGED <<raw_text, document_type, pc, ret, files, shared_vars>>

\* reading extracted_data before anything was assigned to it raises
\* UnboundLocalError, which ends the request
RaiseUnbound ==
  /\ pc = "handling"
  /\ Len(results) < Len(files)
  /\ files[Len(results) + 1].img_valid
  /\ handle_data(files[Len(results) + 1], extracted_data) = Unbound
  /\ pc' = "raised"
  /\ ret' = "UnboundLocalError"
  /\ UNCHANGED <<raw_text, document_type, handler_vars, shared_vars>>

\* return {"status": "success", "processed_count": len(results), "data": results}
Respond ==
  /\ pc = "handling"
  /\ Len(results) = Len(files)
  /\ pc' = "responded"
  /\ ret' = [status |-> "success", processed_count |-> Len(results), data |-> results]
  /\ UNCHANGED <<raw_text, document_type, handler_vars, shared_vars>>

NextBatch == InvalidImage \/ ParseFile \/ RaiseUnbound \/ Respond

SpecBatch == InitBatch /\ [][NextBatch]_vars

\* the OCR text of a decoded image is empty or blank
BlankUpload(f) == f.img_valid /\ \A i \in 1..Len(full_doc_text(f)) : full_doc_text(f)[i] \in Space

\* C19: the response has one entry per file in upload order, each entry's
\* extracted_data comes from that file's own OCR text, and a file whose text
\* is empty or blank neither ends the batch with an error nor is reported
\* with the extracted_data of an earlier file.
BatchEntriesFromOwnFile ==
  /\ pc # "raised"
  /\ pc = "responded" =>
       /\ ret.processed_count = Len(files)
       /\ Len(ret.data) = Len(files)
       /\ \A i \in 1..Len(files) :
            /\ ret.data[i].filename = i
            /\ files[i].img_valid /\ ~BlankUpload(files[i]) =>
                 ret.data[i].extracted_data =
                   extract(full_doc_text(files[i]),
                           Some(detect_document_type(full_doc_text(files[i]))))
            /\ BlankUpload(files[i]) =>
                 \A j \in 1..(i - 1) :
                   files[j].img_valid /\ ~BlankUpload(files[j]) =>
                     ret.data[i].extracted_data # ret.data[j].extracted_data

\* ------------------------------------------------------------------------
\* Calls of extract and detect_document_type that overlap on one extractor
\* ------------------------------------------------------------------------

MaxCalls == 2

CallIds == 1..MaxCalls

\* the texts of the calls: empty, futsuu, kojin bangou kaado
CallTexts == {<<>>, <<26222, 36890>>, <<20491, 20154, 30058, 21495, 12459, 12540, 12489>>}

\* __init__ and _compile_patterns: the compiled patterns of a new extractor,
\* next to the class constants every extractor shares
JapaneseFieldExtractor ==
  [residence_card_pattern |-> residence_card_pattern,
   mynumber_pattern |-> mynumber_pattern,
   license_number_pattern |-> license_number_pattern,
   jp_date_pattern |-> jp_date_pattern,
   DOC_RESIDENCE_CARD |-> DOC_RESIDENCE_CARD,
   DOC_MYNUMBER_CARD |-> DOC_MYNUMBER_CARD,
   DOC_DRIVING_LICENSE |-> DOC_DRIVING_LICENSE,
   GENDER_MAP |-> GENDER_MAP,
   RESIDENCE_STATUS_LIST |-> RESIDENCE_STATUS_LIST]

\* the frame of a call: its arguments (op, raw_text, document_type), its
\* position, and its locals (document_type once resolved, scores, the
\* returned value)
IdleFrame ==
  [pc |-> "idle", op |-> "", raw_text |-> <<>>, document_type |-> None,
   local_document_type |-> None, scores |-> None, ret |-> None]

\* a mutant of bind_local: the name lives on the shared extractor, one slot
\* for all calls
bind_local_on_instance(frames, c, name, value) ==
  [d \in DOMAIN frames |-> [frames[d] EXCEPT ![name] = value]]

\* an assignment to a local name of call c
bind_local(frames, c, name, value) ==
  [frames EXCEPT ![c] = [@ EXCEPT ![name] = value]]

\* call c moves on to the position label
goto(frames, c, label) == [frames EXCEPT ![c].pc = label]

\* call c returns value to its caller
return_value(frames, c, value) ==
  goto([frames EXCEPT ![c].ret = Some(value)], c, "returned")

\* detect_document_type returns value: to the caller of the call, or to the
\* extract that called it (document_type = self.detect_document_type(raw_text))
detect_return(frames, c, value) ==
  IF frames[c].op = "extract"
  THEN goto(bind_local(frames, c, "local_document_type", Some(value)), c, "routing")
  ELSE return_value(frames, c, value)

\* the routing of extract on the resolved document type
route(self, dt, raw) ==
  IF dt = self.DOC_RESIDENCE_CARD THEN extract_residence_card(raw)
  ELSE IF dt = self.DOC_MYNUMBER_CARD THEN extract_mynumber_card(raw)
  ELSE IF dt = self.DOC_DRIVING_LICENSE THEN extract_driving_license(raw)
  ELSE _empty_result(dt)

InitCalls ==
  /\ instance = JapaneseFieldExtractor
  /\ calls = [c \in CallIds |-> IdleFrame]
  /\ raw_text = <<>>
  /\ document_type = None
  /\ pc = "serving"
  /\ ret = None
  /\ NoRequest

\* a caller enters extract or detect_document_type
Call ==
  /\ \E c \in CallIds, text \in CallTexts :
       \E op \in {"extract", "detect_document_type"} :
         \E dt \in IF op = "extract" THEN {None, Some(DOC_DRIVING_LICENSE)} ELSE {None} :
           /\ calls[c].pc = "idle"
           /\ calls' = [calls EXCEPT ![c] =
                          [IdleFrame EXCEPT !.pc = "called", !.op = op, !.raw_text = text,
                                            !.document_type = dt, !.local_document_type = dt]]
  /\ UNCHANGED <<raw_text, document_type, pc, ret, handler_vars, instance>>

\* extract up to its call of detect_document_type
ExtractEnter ==
  /\ \E c \in CallIds :
       /\ calls[c].pc = "called"
       /\ calls[c].op = "extract"
       /\ calls' =
            IF calls[c].raw_text = <<>>
            THEN return_value(calls, c,
                   _empty_result(IF Truthy(calls[c].document_type)
                                 THEN calls[c].document_type[1]
                                 ELSE instance.DOC_RESIDENCE_CARD))
            ELSE IF ~Truthy(calls[c].document_type) THEN goto(calls, c, "detecting")
            ELSE goto(calls, c, "routing")
  /\ UNCHANGED <<raw_text, document_type, pc, ret, handler_vars, instance>>

\* detect_document_type up to the end of its scoring: scores is a local dict
DetectScore ==
  /\ \E c \in CallIds :
       /\ \/ calls[c].pc = "called" /\ calls[c].op = "detect_document_type"
          \/ calls[c].pc = "detecting"
       /\ calls' =
            IF calls[c].raw_text = <<>>
            THEN detect_return(calls, c, instance.DOC_RESIDENCE_CARD)
            ELSE goto(bind_local(calls, c, "scores", Some(scores(calls[c].raw_text))),
                      c, "scored")
  /\ UNCHANGED <<raw_text, document_type, pc, ret, handler_vars, instance>>

\* return max(scores, key=scores.get)
DetectReturn ==
  /\ \E c \in CallIds :
       /\ calls[c].pc = "scored"
       /\ calls' = detect_return(calls, c,
                     dict_max(Tail(DocTypeOrder), calls[c].scores[1], Head(DocTypeOrder)))
  /\ UNCHANGED <<raw_text, document_type, pc, ret, handler_vars, instance>>

\* extract from its routing to its return
ExtractRoute ==
  /\ \E c \in CallIds :
       /\ calls[c].pc = "routing"
       /\ calls' = return_value(calls, c,
                     route(instance, calls[c].local_document_type[1], calls[c].raw_text))
  /\ UNCHANGED <<raw_text, document_type, pc, ret, handler_vars, instance>>

NextCalls == Call \/ ExtractEnter \/ DetectScore \/ DetectReturn \/ ExtractRoute

SpecCalls == InitCalls /\ [][NextCalls]_vars

\* what call c returns when it runs alone
AloneResult(c) ==
  IF calls[c].op = "extract"
  THEN extract(calls[c].raw_text, calls[c].document_type)
  ELSE detect_document_type(calls[c].raw_text)

\* C14: calls of extract and detect_document_type that overlap in any
\* interleaving on one extractor leave its tables and compiled patterns as
\* constructed, and each call returns what it returns when run alone.
CallsIndependent ==
  /\ instance = JapaneseFieldExtractor
  /\ \A c \in CallIds :
       calls[c].pc = "returned" => calls[c].ret = Some(AloneResult(c))

\* call 1 has returned the type of its text while call 2, on another text,
\* is between its detection and its routing
CallsWitness ==
  /\ calls[1].pc = "returned"
  /\ calls[1].op = "detect_document_type"
  /\ calls[1].raw_text = <<26222, 36890>>
  /\ calls[1].ret = Some(DOC_DRIVING_LICENSE)
  /\ calls[2].pc = "routing"
  /\ calls[2].raw_text = <<20491, 20154, 30058, 21495, 12459, 12540, 12489>>
  /\ calls[2].local_document_type = Some(DOC_MYNUMBER_CARD)

====
